---- MODULE Spec2Model ----
(***************************************************************************)
(* Payment-to-access activation pipeline of the captive-portal billing     *)
(* gateway: one order, the five confirmation handlers that can act on it   *)
(* (Flutterwave webhook and redirect; Yo Payments webhook, status poll and *)
(* redirect), and the voucher-use operation that completes a paid order.   *)
(* Every handler is cut at its awaits: one action per stretch of code that *)
(* runs without yielding to another request.                               *)
(***************************************************************************)
EXTENDS Integers, FiniteSets, Sequences, TLC

\* Bound: confirmation requests started in one behaviour.
MaxSignals == 2

\* Request handlers that can be in flight at the same time.
Procs == {"h1", "h2"}

\* The handlers a request is offered to before p: a request is served by the
\* first free one (the handlers are interchangeable).
Before(p) == IF p = "h2" THEN {"h1"} ELSE {}

Channels == {"fwWebhook", "fwRedirect", "yoWebhook", "yoStatus", "yoRedirect"}
Webhooks == {"fwWebhook", "yoWebhook"}
Interactive == {"fwRedirect", "yoStatus", "yoRedirect"}

\* What the provider's own API answers when asked about the transaction a
\* signal refers to: everything agrees with the order ("ok"), one field
\* disagrees, or the call fails at the transport level.
Verdicts == {"ok", "failed", "pending", "badRef", "badCurrency", "badAmount", "unavailable"}
Mismatches == {"failed", "pending", "badRef", "badCurrency", "badAmount"}

\* Status claimed by the inbound payload or query string.
Claims == {"success", "failed", "other"}

\* Outcomes of mikrotikService.authorizeMacBinding.
AuthOutcomes == {"success", "skipped", "failed"}

VARIABLES
    order,        \* the orders row: status, plan, mac, provider_ref, autologin_status
    paylog,       \* payment_logs.status of the order's reference
    usage,        \* voucher_usage holds a row for the order's voucher code
    activations,  \* activateVoucher calls that completed for the order's username
    paidWrites,   \* UPDATE orders SET status='PAID' statements executed
    pc,           \* position of each handler
    sig,          \* the signal each handler is serving
    did,          \* what each handler has done so far in this request
    resp,         \* the response each handler sent
    nSignals,     \* confirmation requests started
    faulted,      \* some store or RADIUS call has failed
    okRuns,       \* finished requests that delivered a verified-success confirmation
    firstPaid,    \* channel and payload of the first request that wrote PAID
    now,          \* the clock, in milliseconds (Date.now() and the store's NOW())
    rateLimitStore,      \* the source IP's entry of the in-memory rate-limit map
    failedAttemptsStore, \* the source IP's entry of the failed-attempt map
    lockedOutIps, \* the source IP's entry of the lockout map
    flagged_ips,  \* the source IP's row of the persisted block list
    voucher,      \* the vouchers row of the code, and its radacct sessions
    voucher_usage,\* the usage-ledger row of the code
    vpc,          \* position of each voucher request
    vreq,         \* the voucher request each handler is serving, and its result
    radius,       \* the radcheck/radreply records of one username, by attribute
    av,           \* the activateVoucher call in progress: arguments and position
    calc,         \* a helper function of the services applied to an input
    secFault,     \* some store call of the voucher-security service has failed
    passes,       \* requests let through by the rate-limit check in the current window
    marks,        \* POST /voucher/use requests answered with success
    mikrotik,     \* ids of the router's ip-bindings of the one hardware address
    mac_bindings, \* status of the mac_bindings row each call inserted
    mb,           \* the MikroTik service calls: operation, position, result
    orderCodes,   \* username of each orders row, in order of insertion
    voucherCodes, \* code of each vouchers row, in order of insertion
    issued        \* the last request that generated a code, and its answer

payVars == <<order, paylog, usage, activations, paidWrites, pc, sig, did, resp,
             nSignals, faulted, okRuns, firstPaid>>

secVars == <<now, rateLimitStore, failedAttemptsStore, lockedOutIps, flagged_ips,
             voucher, voucher_usage, vpc, vreq, secFault, passes, marks>>

radVars == <<radius, av>>

fnVars == <<calc>>

macVars == <<mikrotik, mac_bindings, mb>>

genVars == <<orderCodes, voucherCodes, issued>>

\* What the handlers of one part of the program never touch.
nonPayVars == <<secVars, radVars, fnVars, macVars, genVars>>

nonSecVars == <<payVars, radVars, fnVars, macVars, genVars>>

nonRadVars == <<payVars, secVars, fnVars, macVars, genVars>>

nonFnVars == <<payVars, secVars, radVars, macVars, genVars>>

nonMacVars == <<payVars, secVars, radVars, fnVars, genVars>>

nonGenVars == <<payVars, secVars, radVars, fnVars, macVars>>

vars == <<payVars, secVars, radVars, fnVars, macVars, genVars>>

NoOrder == [status |-> "NONE", plan |-> FALSE, mac |-> FALSE,
            provider_ref |-> FALSE, autologin_status |-> "null"]

NoSig == [chan |-> "-", auth |-> TRUE, claim |-> "success", truth |-> "ok"]

NoDid == [entry |-> "-", verified |-> FALSE, activated |-> FALSE,
          wrote |-> "none", nas |-> FALSE, auto |-> "skipped", attempted |-> FALSE]

NoResp == [http |-> 0, view |-> "-", status |-> "-", msg |-> "-",
           attempted |-> FALSE, auto |-> "-"]

\* The signals a handler can be asked to serve.  Fields a channel never reads
\* are fixed, so that equal requests are one state.
Signals ==
    {[chan |-> "fwWebhook", auth |-> TRUE, claim |-> "success", truth |-> t] : t \in Verdicts}
    \cup {[chan |-> "fwWebhook", auth |-> FALSE, claim |-> "success", truth |-> "ok"]}
    \cup {[chan |-> "fwRedirect", auth |-> TRUE, claim |-> "success", truth |-> t] : t \in Verdicts}
    \cup {[chan |-> "fwRedirect", auth |-> TRUE, claim |-> "failed", truth |-> "ok"]}
    \cup {[chan |-> "yoWebhook", auth |-> a, claim |-> c, truth |-> t] :
             a \in BOOLEAN, c \in Claims, t \in {"ok", "failed"}}
    \cup {[chan |-> c, auth |-> TRUE, claim |-> "success", truth |-> t] :
             c \in {"yoStatus", "yoRedirect"}, t \in Verdicts}

(***************************************************************************)
(* Voucher-security service: state                                         *)
(***************************************************************************)
\* Program constants of the service.
RATE_LIMIT_WINDOW_MS == 60000
MAX_ATTEMPTS_PER_WINDOW == 10
LOCKOUT_THRESHOLD == 30
LOCKOUT_WINDOW_MS == 300000
LOCKOUT_DURATION_MS == 900000
\* blockDurationMinutes of flagIpAddress.
BlockDurationMinutes == 60

\* Bounds: the clock advances in steps of TickMs up to MaxTicks of them (a
\* last step may be as long as a block), and a window's counter is driven at
\* most MaxOver past the limit.
TickMs == 90000
MaxTicks == 4
MaxOver == 1

\* The codes a request can present: one that is a row of the vouchers table
\* and one that is in no table.
Codes == {"good", "bogus"}

\* The operations of the portal that validate a code.
VoucherOps == {"validate", "use"}

NoEntry == [present |-> FALSE, windowStart |-> 0, count |-> 0]

NoLockout == [present |-> FALSE, until |-> 0]

NoFlag == [present |-> FALSE, blocked_until |-> 0, is_permanent |-> FALSE]

NoUsage == [present |-> FALSE, used_at |-> 0]

\* result of validateVoucherSecure as it is initialised.
NoResult == [valid |-> FALSE, rateLimited |-> FALSE, ipBlocked |-> FALSE,
             alreadyUsed |-> FALSE, hasActiveSession |-> FALSE, message |-> "",
             retryAfter |-> 0]

NoVreq == [op |-> "validate", code |-> "good", result |-> NoResult,
           lookedUp |-> FALSE, http |-> 0]

\* expires_at of the voucher: none, or a time the clock can pass.
ExpiryChoices == {0, 2 * TickMs}

\* The block list at the start: no row for the IP, or a row an operator has
\* made permanent in the database.
BlockListChoices == {NoFlag, [NoFlag EXCEPT !.present = TRUE, !.is_permanent = TRUE]}

InitSec ==
    /\ now = 0
    /\ rateLimitStore = NoEntry
    /\ failedAttemptsStore = NoEntry
    /\ lockedOutIps = NoLockout
    /\ flagged_ips \in BlockListChoices
    /\ \E st \in {"ACTIVE", "DISABLED"}, e \in ExpiryChoices :
         voucher = [status |-> st, expires_at |-> e, acct |-> "none"]
    /\ voucher_usage = NoUsage
    /\ vpc = [p \in Procs |-> "idle"]
    /\ vreq = [p \in Procs |-> NoVreq]
    /\ secFault = FALSE
    /\ passes = 0
    /\ marks = 0

\* Requests that generate a voucher code.
MaxIssued == 3

\* The codes Math.floor(10000 + Math.random() * 90000) is seen to return.
CodeChoices == {10000, 10001, 99999}

\* No order, no voucher, no request yet.
InitGen ==
    /\ orderCodes = << >>
    /\ voucherCodes = << >>
    /\ issued = [op |-> "-", code |-> 0, http |-> 0]

(***************************************************************************)
(* RADIUS service: state                                                   *)
(***************************************************************************)
\* Largest duration, in minutes, a caller passes (and the negative of it).
MaxMinutes == 1

\* JavaScript values as the service receives them.
Undef == [type |-> "undefined"]

Num(n) == [type |-> "number", n |-> n]

Str(x) == [type |-> "string", s |-> x]

\* A string kept character by character.
Text(cs) == [type |-> "text", s |-> cs]

Digits == <<"0", "1", "2", "3", "4", "5", "6", "7", "8", "9">>

IsDigit(c) == \E d \in 0 .. 9 : Digits[d + 1] = c

DigitVal(c) == CHOOSE d \in 0 .. 9 : Digits[d + 1] = c

\* String(n) of an integer.
RECURSIVE ToDigits(_)
ToDigits(n) ==
    IF n < 0 THEN <<"-">> \o ToDigits(-n)
    ELSE IF n < 10 THEN <<Digits[n + 1]>>
    ELSE ToDigits(n \div 10) \o <<Digits[(n % 10) + 1]>>

\* parseInt of a string of decimal digits.
RECURSIVE ParseDigits(_)
ParseDigits(cs) ==
    IF Len(cs) = 0 THEN 0
    ELSE ParseDigits(SubSeq(cs, 1, Len(cs) - 1)) * 10 + DigitVal(cs[Len(cs)])

\* The template `${d}k/${u}k` of the Mikrotik-Rate-Limit attribute.
RateStr(d, u) == Text(ToDigits(d) \o <<"k", "/">> \o ToDigits(u) \o <<"k">>)

\* rate.match(/^(\d+)k\/(\d+)k$/): whether it matches, and the two groups.
RateMatch(cs) ==
    LET cut == {i \in 2 .. Len(cs) - 3 :
                  /\ cs[i] = "k" /\ cs[i + 1] = "/" /\ cs[Len(cs)] = "k"
                  /\ \A j \in 1 .. i - 1 : IsDigit(cs[j])
                  /\ \A j \in i + 2 .. Len(cs) - 1 : IsDigit(cs[j])}
    IN  IF cut = {} THEN [ok |-> FALSE, down |-> << >>, up |-> << >>]
        ELSE LET i == CHOOSE i \in cut : TRUE
             IN  [ok |-> TRUE, down |-> SubSeq(cs, 1, i - 1),
                  up |-> SubSeq(cs, i + 2, Len(cs) - 1)]

\* A Date as radiusExpiration renders it: to the whole second.
DateStr(ms) == [type |-> "date", seconds |-> ms \div 1000]

\* if (v) of the language: undefined (an argument left out, a record that
\* is not there), 0 and "" are false.
Truthy(v) ==
    CASE v.type \in {"undefined", "absent", "null"} -> FALSE
      [] v.type = "number" -> v.n # 0
      [] v.type = "string" -> v.s # ""
      [] v.type = "text" -> Len(v.s) > 0
      [] OTHER -> TRUE

\* The attributes the service writes for a username (radcheck holds the
\* password and the Auth-Type override, radreply the others).
Attributes == {"Cleartext-Password", "Auth-Type", "Expiration", "Session-Timeout",
               "Idle-Timeout", "Mikrotik-Rate-Limit", "WISPr-Bandwidth-Max-Down",
               "WISPr-Bandwidth-Max-Up", "Mikrotik-Total-Limit"}

Absent == [type |-> "absent"]

NoRecords == [a \in Attributes |-> Absent]

\* The arguments callers pass.
UsernameChoices == {Undef, Str("u")}

PasswordChoices == {Str(""), Str("pw")}

MinutesChoices == {Undef} \cup {Num(n) : n \in -MaxMinutes .. MaxMinutes}

SpeedChoices == {[down |-> Undef, up |-> Undef],
                 [down |-> Num(2000), up |-> Num(1000)]}

\* "3000k/1500k", "08k/4k" and "3M/1M".
RateChoices == {Undef,
                Text(<<"3", "0", "0", "0", "k", "/", "1", "5", "0", "0", "k">>),
                Text(<<"0", "8", "k", "/", "4", "k">>),
                Text(<<"3", "M", "/", "1", "M">>)}

DataChoices == {Undef, Num(500)}

\* The calls made: every combination of the required arguments, and every
\* combination of the optional ones for the calls that pass a name, a
\* password and a non-zero duration.
ArgChoices ==
    {a \in {[username |-> u, password |-> pw, minutes |-> m,
             speedDownKbps |-> sp.down, speedUpKbps |-> sp.up,
             dataMb |-> d, rate |-> r] :
               u \in UsernameChoices, pw \in PasswordChoices,
               m \in MinutesChoices, sp \in SpeedChoices,
               r \in RateChoices, d \in DataChoices} :
        \/ Truthy(a.username) /\ Truthy(a.password) /\ Truthy(a.minutes)
        \/ /\ a.speedDownKbps = Undef /\ a.speedUpKbps = Undef
           /\ a.dataMb = Undef /\ a.rate = Undef}

NoArgs == [username |-> Undef, password |-> Undef, minutes |-> Undef,
           speedDownKbps |-> Undef, speedUpKbps |-> Undef, dataMb |-> Undef,
           rate |-> Undef]

\* What activateVoucher returns (the fields derived from the arguments).
NoReturn == [sessionSeconds |-> Undef, speedDownKbps |-> Undef,
             speedUpKbps |-> Undef]

\* No call yet.  pc: idle, check, write, returned, threw; k: the next write;
\* t: Date.now() of the call; wrote: records this call has written; err: why
\* it threw; ret: what it returned.
NoCall == [args |-> NoArgs, pc |-> "idle", k |-> 1, t |-> 0, wrote |-> 0,
           err |-> "none", ret |-> NoReturn]

InitRad ==
    /\ radius = NoRecords
    /\ av = NoCall

\* No helper function has been applied.
NoCalc == [fn |-> "-", input |-> Undef, output |-> Undef]

InitFn == calc = NoCalc

\* MikroTik service calls that can be made; a binding carries the id of the
\* call that created it.
MaxCalls == 2

BindCalls == 1 .. MaxCalls

\* No binding on the router, no audit row, no call made.
InitMac ==
    /\ mikrotik = {}
    /\ mac_bindings = [c \in BindCalls |-> "none"]
    /\ mb = [c \in BindCalls |->
               [op |-> "-", pc |-> "idle", found |-> {}, attempted |-> FALSE,
                ret |-> [success |-> FALSE, status |-> "-"]]]

\* The payment side before any order exists.
InitPay ==
    /\ order = NoOrder
    /\ paylog = "none"
    /\ usage = FALSE
    /\ activations = 0
    /\ paidWrites = 0
    /\ pc = [p \in Procs |-> "idle"]
    /\ sig = [p \in Procs |-> NoSig]
    /\ did = [p \in Procs |-> NoDid]
    /\ resp = [p \in Procs |-> NoResp]
    /\ nSignals = 0
    /\ faulted = FALSE
    /\ okRuns = 0
    /\ firstPaid = [chan |-> "-", payload |-> NoResp]

\* The gateway with no order yet and an active voucher without expiry.
Init ==
    /\ InitPay
    /\ InitSec
    /\ voucher.status = "ACTIVE" /\ voucher.expires_at = 0
    /\ flagged_ips = NoFlag
    /\ InitRad
    /\ InitFn
    /\ InitMac
    /\ InitGen

\* The gateway with an active voucher without expiry and any block list.
InitIp ==
    /\ InitPay
    /\ InitSec
    /\ InitRad
    /\ InitFn
    /\ InitMac
    /\ InitGen
    /\ voucher.status = "ACTIVE" /\ voucher.expires_at = 0

\* The gateway with no order yet and any voucher an administrator can have
\* left in the vouchers table.
InitVoucher ==
    /\ InitPay
    /\ InitSec
    /\ InitRad
    /\ InitFn
    /\ InitMac
    /\ InitGen


(***************************************************************************)
(* Responses                                                               *)
(***************************************************************************)
Ack == [http |-> 200, view |-> "ok", status |-> "-", msg |-> "-",
        attempted |-> FALSE, auto |-> "-"]

Json(code, st, m, a) == [http |-> code, view |-> "json", status |-> st, msg |-> m,
                         attempted |-> FALSE, auto |-> a]

Page(v, m, att, a) == [http |-> 200, view |-> v, status |-> "-", msg |-> m,
                       attempted |-> att, auto |-> a]

\* The response of a handler whose order lookup found no row.
NotFound(c) ==
    CASE c \in Webhooks -> Ack
      [] c = "yoStatus" -> Json(404, "-", "Order not found", "-")
      [] OTHER -> Page("payment-failed", "Order not found", FALSE, "-")

\* The response of a handler that found the order already PAID, built from
\* the row it loaded.
PaidResponse(c, o) ==
    CASE c \in Webhooks -> Ack
      [] c = "yoStatus" -> Json(200, "PAID", "Payment completed", "absent")
      [] OTHER -> Page("payment-success", "-", o.autologin_status # "null",
                       o.autologin_status)

\* The response of the request that carried the order to PAID; d is what the
\* handler did.
SuccessResponse(c, d) ==
    CASE c \in Webhooks -> Ack
      [] c = "yoStatus" -> Json(200, "PAID", "Payment completed successfully", d.auto)
      [] OTHER -> Page("payment-success", "-", d.attempted, d.auto)

\* A catch block that reports the failure to the provider.
WebhookCatchError == Json(500, "-", "Server error", "-")

\* The response of a webhook handler's catch block.
WebhookCatch == Ack

\* The response of the catch block an exception reaches; inner says that the
\* exception was raised after the provider status call had been started.
CatchResponse(c, inner) ==
    CASE c \in Webhooks -> WebhookCatch
      [] c = "fwRedirect" -> Page("payment-failed", "An error occurred", FALSE, "-")
      [] c = "yoStatus" -> Json(500, "-", "Server error", "-")
      [] OTHER -> IF inner THEN Page("payment-pending", "being processed", FALSE, "-")
                           ELSE Page("payment-failed", "An error occurred", FALSE, "-")

(***************************************************************************)
(* The decisions the handlers take                                         *)
(***************************************************************************)
\* The idempotency test with a status literal the orders table never holds.
AlreadyPaidWrongLiteral(st) == st = "SUCCESS"

\* The idempotency test every handler makes on the row it loaded.
AlreadyPaid(st) == st = "PAID"

\* verif-hash header against FLW_WEBHOOK_HASH.
FlwHashOk(s) == s.auth

\* The comparison without the reference test: status, currency and amount only.
FlwMatchesWithoutRef(t) ==
    /\ t \notin {"failed", "pending"}
    /\ t # "badCurrency"
    /\ t # "badAmount"

\* Flutterwave: verified status, reference, currency and amount against the order.
FlwMatches(t) ==
    /\ t \notin {"failed", "pending"}
    /\ t # "badRef"
    /\ t # "badCurrency"
    /\ t # "badAmount"

\* checkTransactionStatus: the provider's TransactionStatus mapped to
\* paymentStatus; nothing else of the answer is kept.
YoPaymentStatus(t) ==
    CASE t = "failed" -> "failed"
      [] t = "pending" -> "pending"
      [] OTHER -> "success"

\* The Yo Payments webhook's reading of the status its payload claims.
YoIsSuccess(cl) == cl = "success"
YoIsFailed(cl) == cl = "failed"

\* The row an unconditional UPDATE ... SET status='PAID' leaves.
PaidRow(o, c) ==
    [o EXCEPT !.status = "PAID",
              !.provider_ref = IF c \in {"fwWebhook", "fwRedirect"} THEN TRUE ELSE @]

\* The row an unconditional UPDATE ... SET status='FAILED' leaves.
FailedRow(o) == [o EXCEPT !.status = "FAILED"]

\* An auto-login bookkeeping that puts the order back when the router refused.
AutologinRowRollback(o, st) ==
    [o EXCEPT !.autologin_status = st,
              !.status = IF st = "failed" THEN "PENDING" ELSE @]

\* An auto-login bookkeeping that records only what went well.
AutologinRowDropsFailure(o, st) ==
    IF st = "failed" THEN o ELSE [o EXCEPT !.autologin_status = st]

\* The row UPDATE orders SET autologin_status = ?, autologin_message = ? leaves.
AutologinRow(o, st) == [o EXCEPT !.autologin_status = st]

\* The row markVoucherUsed leaves: COMPLETED only from PAID.
CompletedRow(o) == [o EXCEPT !.status = IF @ = "PAID" THEN "COMPLETED" ELSE @]

(***************************************************************************)
(* Steps                                                                   *)
(***************************************************************************)
Go(p, next, d) ==
    /\ pc' = [pc EXCEPT ![p] = next]
    /\ did' = [did EXCEPT ![p] = d]
    /\ UNCHANGED <<resp, okRuns, firstPaid>>

\* A request that delivers a verified-success confirmation for the order: the
\* header is authentic, the payload claims success, the provider confirms the
\* transaction with the order's values, and the channel applies to the order
\* (the Yo Payments poll and redirect need the order's provider reference).
OkDelivery(s, d) ==
    /\ s.auth /\ s.claim = "success" /\ s.truth = "ok"
    /\ d.entry \notin {"-", "NONE"}
    /\ s.chan \in {"yoStatus", "yoRedirect"} => order.provider_ref

End(p, d, r) ==
    /\ pc' = [pc EXCEPT ![p] = "done"]
    /\ okRuns' = IF OkDelivery(sig[p], d) THEN okRuns + 1 ELSE okRuns
    /\ did' = [did EXCEPT ![p] = d]
    /\ resp' = [resp EXCEPT ![p] = r]
    /\ firstPaid' = IF d.wrote = "PAID" /\ firstPaid.chan = "-"
                    THEN [chan |-> sig[p].chan, payload |-> r]
                    ELSE firstPaid

\* A store or RADIUS call throws: the enclosing catch block answers.
Fault(p, inner) ==
    /\ faulted' = TRUE
    /\ End(p, did[p], CatchResponse(sig[p].chan, inner))
    /\ UNCHANGED <<order, paylog, usage, activations, paidWrites, sig, nSignals>>

\* Where a handler continues after the PAID write and the auto-login attempt.
AfterPaid(p, d) ==
    IF sig[p].chan \in {"fwRedirect", "yoRedirect"}
    THEN End(p, d, SuccessResponse(sig[p].chan, d))
    ELSE Go(p, "logSuccess", d)

\* POST /init of either provider: the PENDING order and its payment-log row.
\* plan = FALSE is the order whose plan was deleted between the plan lookup of
\* /init and the order insert (the admin delete checks, then deletes).
CreateOrder ==
    /\ UNCHANGED nonPayVars
    /\ order.status = "NONE"
    /\ \E plan \in BOOLEAN, mac \in BOOLEAN, kind \in {"fw", "yo", "yoRejected"} :
         /\ order' = [status |-> "PENDING", plan |-> plan, mac |-> mac,
                      provider_ref |-> (kind = "yo"), autologin_status |-> "null"]
         /\ paylog' = IF kind = "yoRejected" THEN "failed" ELSE "pending"
    /\ UNCHANGED <<usage, activations, paidWrites, pc, sig, did, resp, nSignals,
                   faulted, okRuns, firstPaid>>

\* A confirmation request arrives.
Start(p) ==
    /\ UNCHANGED nonPayVars
    /\ pc[p] \in {"idle", "done"}
    /\ \A q \in Before(p) : pc[q] \notin {"idle", "done"}
    /\ nSignals < MaxSignals
    /\ \E s \in Signals : sig' = [sig EXCEPT ![p] = s]
    /\ pc' = [pc EXCEPT ![p] = "load"]
    /\ did' = [did EXCEPT ![p] = NoDid]
    /\ resp' = [resp EXCEPT ![p] = NoResp]
    /\ nSignals' = nSignals + 1
    /\ UNCHANGED <<order, paylog, usage, activations, paidWrites, faulted, okRuns,
                   firstPaid>>


\* The header check (Flutterwave webhook only), the order lookup, the
\* idempotency test and the channel's own early returns.
LoadNormal(p) ==
    LET c == sig[p].chan
        d == [did[p] EXCEPT !.entry = order.status]
    IN  /\ UNCHANGED faulted
        /\ CASE order.status = "NONE" -> End(p, d, NotFound(c))
             [] order.status # "NONE" /\ AlreadyPaid(order.status) ->
                    End(p, d, PaidResponse(c, order))
             [] OTHER ->
                 CASE c = "fwWebhook" -> Go(p, "verify", d)
                   [] c = "fwRedirect" ->
                        IF sig[p].claim # "success"
                        THEN End(p, d, Page("payment-failed", "Payment was not successful", FALSE, "-"))
                        ELSE Go(p, "verify", d)
                   [] c = "yoWebhook" ->
                        IF YoIsSuccess(sig[p].claim)
                        THEN Go(p, IF order.plan THEN "activate" ELSE "markPaid", d)
                        ELSE IF YoIsFailed(sig[p].claim)
                             THEN Go(p, "markFailed", d)
                             ELSE End(p, d, Ack)
                   [] c = "yoStatus" ->
                        IF ~order.provider_ref
                        THEN End(p, d, Json(200, order.status, "Payment not yet processed", "-"))
                        ELSE Go(p, "verify", d)
                   [] OTHER ->
                        IF ~order.provider_ref
                        THEN End(p, d, Page("payment-pending", "being processed", FALSE, "-"))
                        ELSE Go(p, "verify", d)

Load(p) ==
    /\ UNCHANGED nonPayVars
    /\ pc[p] = "load"
    /\ IF sig[p].chan = "fwWebhook" /\ ~FlwHashOk(sig[p])
       THEN /\ End(p, did[p], Ack)
            /\ UNCHANGED <<order, paylog, usage, activations, paidWrites, sig,
                           nSignals, faulted>>
       ELSE \/ Fault(p, FALSE)
            \/ /\ LoadNormal(p)
               /\ UNCHANGED <<order, paylog, usage, activations, paidWrites, sig, nSignals>>

\* Flutterwave: GET /v3/transactions/:id/verify, the comparison with the
\* order, and the plan test.
VerifyFlw(p) ==
    LET c == sig[p].chan
        t == sig[p].truth
        d == [did[p] EXCEPT !.verified = TRUE]
        Reject(m) == IF c = "fwWebhook" THEN Ack
                     ELSE Page("payment-failed", m, FALSE, "-")
    IN  CASE t = "unavailable" -> End(p, did[p], Reject("Could not verify payment"))
          [] t # "unavailable" /\ ~FlwMatches(t) ->
                 End(p, did[p], Reject("Payment verification failed"))
          [] OTHER -> IF ~order.plan
                      THEN End(p, d, Reject("Plan not found"))
                      ELSE Go(p, "activate", d)

\* Yo Payments: checkTransactionStatus(order.provider_ref) and the branch on
\* its paymentStatus.
VerifyYo(p) ==
    LET c == sig[p].chan
        t == sig[p].truth
        d == [did[p] EXCEPT !.verified = TRUE]
    IN  CASE t = "unavailable" -> End(p, did[p], CatchResponse(c, TRUE))
          [] t # "unavailable" /\ YoPaymentStatus(t) = "success" ->
                 Go(p, IF order.plan THEN "activate" ELSE "markPaid", d)
          [] t # "unavailable" /\ YoPaymentStatus(t) = "failed" ->
                 Go(p, "markFailed", did[p])
          [] OTHER ->
                 End(p, did[p],
                     IF c = "yoStatus"
                     THEN Json(200, "PENDING", "Payment is still being processed", "-")
                     ELSE Page("payment-pending", "being processed", FALSE, "-"))

Verify(p) ==
    /\ UNCHANGED nonPayVars
    /\ pc[p] = "verify"
    /\ \/ /\ sig[p].chan \in {"fwWebhook", "yoStatus"}   \* these load the plan here
          /\ Fault(p, TRUE)
       \/ /\ IF sig[p].chan \in {"fwWebhook", "fwRedirect"}
             THEN VerifyFlw(p) ELSE VerifyYo(p)
          /\ UNCHANGED <<order, paylog, usage, activations, paidWrites, sig,
                         nSignals, faulted>>

\* A handler whose activateVoucher call is wrapped in a try block of its own:
\* the error is swallowed and the handler goes on to the PAID write.
ActivateSwallowsError(p) ==
    /\ UNCHANGED nonPayVars
    /\ pc[p] = "activate"
    /\ \/ /\ faulted' = TRUE
          /\ Go(p, "markPaid", did[p])
          /\ UNCHANGED <<order, paylog, usage, activations, paidWrites, sig, nSignals>>
       \/ /\ activations' = activations + 1
          /\ Go(p, "markPaid", [did[p] EXCEPT !.activated = TRUE])
          /\ UNCHANGED <<order, paylog, usage, paidWrites, sig, nSignals, faulted>>

\* await activateVoucher(...): the RADIUS records of the order's username.
Activate(p) ==
    /\ UNCHANGED nonPayVars
    /\ pc[p] = "activate"
    /\ \/ Fault(p, TRUE)
       \/ /\ activations' = activations + 1
          /\ Go(p, "markPaid", [did[p] EXCEPT !.activated = TRUE])
          /\ UNCHANGED <<order, paylog, usage, paidWrites, sig, nSignals, faulted>>

\* UPDATE orders SET status='PAID' ... WHERE order_ref=? (or id=?).
MarkPaid(p) ==
    /\ UNCHANGED nonPayVars
    /\ pc[p] = "markPaid"
    /\ \/ Fault(p, TRUE)
       \/ LET d == [did[p] EXCEPT !.wrote = "PAID"]
          IN  /\ order' = PaidRow(order, sig[p].chan)
              /\ paidWrites' = paidWrites + 1
              /\ IF order.mac /\ order.plan
                 THEN Go(p, "autologin", d)
                 ELSE AfterPaid(p, d)
              /\ UNCHANGED <<paylog, usage, activations, sig, nSignals, faulted>>

\* authorizeMacBinding and the UPDATE of autologin_status; when that UPDATE
\* throws, the handler's inner catch writes 'failed', and when that throws
\* too the outer catch answers.
Autologin(p) ==
    /\ UNCHANGED nonPayVars
    /\ pc[p] = "autologin"
    /\ \E o \in AuthOutcomes, f \in {"none", "first", "both"} :
         LET kept == IF sig[p].chan = "yoStatus" THEN o ELSE "failed"
             d == [did[p] EXCEPT !.nas = TRUE, !.attempted = TRUE,
                                 !.auto = IF f = "none" THEN o ELSE kept]
         IN  CASE f = "none" ->
                    /\ order' = AutologinRow(order, o)
                    /\ AfterPaid(p, d)
                    /\ UNCHANGED faulted
               [] f = "first" ->
                    /\ order' = AutologinRow(order, "failed")
                    /\ AfterPaid(p, d)
                    /\ faulted' = TRUE
               [] OTHER ->
                    /\ UNCHANGED order
                    /\ End(p, d, CatchResponse(sig[p].chan, TRUE))
                    /\ faulted' = TRUE
    /\ UNCHANGED <<paylog, usage, activations, paidWrites, sig, nSignals>>

\* updatePaymentLog(ref, 'success') (it swallows its own errors) and the answer.
LogSuccess(p) ==
    /\ UNCHANGED nonPayVars
    /\ pc[p] = "logSuccess"
    /\ \/ paylog' = "success" /\ UNCHANGED faulted
       \/ UNCHANGED paylog /\ faulted' = TRUE
    /\ End(p, did[p], SuccessResponse(sig[p].chan, did[p]))
    /\ UNCHANGED <<order, usage, activations, paidWrites, sig, nSignals>>

\* UPDATE orders SET status='FAILED' WHERE order_ref=? (or id=?).
MarkFailed(p) ==
    /\ UNCHANGED nonPayVars
    /\ pc[p] = "markFailed"
    /\ \/ Fault(p, TRUE)
       \/ LET d == [did[p] EXCEPT !.wrote = "FAILED"]
          IN  /\ order' = FailedRow(order)
              /\ IF sig[p].chan = "yoRedirect"
                 THEN End(p, d, Page("payment-failed", "Payment failed", FALSE, "-"))
                 ELSE Go(p, "logFailed", d)
              /\ UNCHANGED <<paylog, usage, activations, paidWrites, sig, nSignals, faulted>>

\* updatePaymentLog(ref, 'failed') and the answer.
LogFailed(p) ==
    /\ UNCHANGED nonPayVars
    /\ pc[p] = "logFailed"
    /\ \/ paylog' = "failed" /\ UNCHANGED faulted
       \/ UNCHANGED paylog /\ faulted' = TRUE
    /\ End(p, did[p], IF sig[p].chan = "yoWebhook" THEN Ack
                      ELSE Json(200, "FAILED", "Payment failed", "-"))
    /\ UNCHANGED <<order, usage, activations, paidWrites, sig, nSignals>>

\* validateVoucherSecure's lookup of a code in the orders table: only an order
\* whose status is PAID or COMPLETED is found.
OrderVoucherFound(o) == o.status \in {"PAID", "COMPLETED"}

\* validateVoucherSecure for an order's code (no block, no rate limit, no
\* accounting session): not found, already used (usage row), or valid.
ValidateOrderCode(o, used) ==
    IF ~OrderVoucherFound(o) THEN "not_found"
    ELSE IF used THEN "already_used"
    ELSE "valid"

\* POST /voucher/use for the order's code once validateVoucherSecure has found
\* the order (PAID or COMPLETED) and no usage row: markVoucherUsed.
VoucherUse ==
    /\ UNCHANGED nonPayVars
    /\ ValidateOrderCode(order, usage) = "valid"
    /\ usage' = TRUE
    /\ order' = CompletedRow(order)
    /\ UNCHANGED <<paylog, activations, paidWrites, pc, sig, did, resp, nSignals,
                   faulted, okRuns, firstPaid>>

Next ==
    \/ CreateOrder
    \/ VoucherUse
    \/ \E p \in Procs : Start(p)
    \/ \E p \in Procs : Load(p)
    \/ \E p \in Procs : Verify(p)
    \/ \E p \in Procs : Activate(p)
    \/ \E p \in Procs : MarkPaid(p)
    \/ \E p \in Procs : Autologin(p)
    \/ \E p \in Procs : LogSuccess(p)
    \/ \E p \in Procs : MarkFailed(p)
    \/ \E p \in Procs : LogFailed(p)

Spec == Init /\ [][Next]_vars

\* The same program with its confirmation requests delivered one after the
\* other: a request starts only when no other is in flight.
StartSeq(p) ==
    /\ \A q \in Procs : pc[q] \in {"idle", "done"}
    /\ Start(p)

NextSeq ==
    \/ CreateOrder
    \/ VoucherUse
    \/ \E p \in Procs : StartSeq(p)
    \/ \E p \in Procs : Load(p)
    \/ \E p \in Procs : Verify(p)
    \/ \E p \in Procs : Activate(p)
    \/ \E p \in Procs : MarkPaid(p)
    \/ \E p \in Procs : Autologin(p)
    \/ \E p \in Procs : LogSuccess(p)
    \/ \E p \in Procs : MarkFailed(p)
    \/ \E p \in Procs : LogFailed(p)

SpecSeq == Init /\ [][NextSeq]_vars


(***************************************************************************)
(* Voucher-security service: the checks                                    *)
(***************************************************************************)
\* Math.ceil(a / b) for b > 0.
CeilDiv(a, b) == -((-a) \div b)

\* An isIpBlocked that honours permanent rows only.
isIpBlockedPermanentOnly(row, t) == row.present /\ row.is_permanent

\* isIpBlocked: the row counts when permanent or not yet expired.
isIpBlocked(row, t) ==
    row.present /\ (row.is_permanent \/ row.blocked_until > t)

\* A counter that starts a new window on every call.
WindowEntryAlwaysFresh(entry, t, window) ==
    [present |-> TRUE, windowStart |-> t, count |-> 0]

\* The entry a counter works on: the stored one, or a fresh one when there is
\* none or its window is over.
WindowEntry(entry, t, window) ==
    IF ~entry.present \/ t - entry.windowStart > window
    THEN [present |-> TRUE, windowStart |-> t, count |-> 0]
    ELSE entry

\* checkRateLimit at time t: its answer and the two maps as it leaves them.
checkRateLimit(lock, entry, t) ==
    IF lock.present /\ t < lock.until
    THEN [allowed |-> FALSE, locked |-> TRUE,
          retryAfter |-> CeilDiv(lock.until - t, 1000),
          lock |-> lock, entry |-> entry]
    ELSE LET e == [WindowEntry(entry, t, RATE_LIMIT_WINDOW_MS) EXCEPT !.count = @ + 1]
             ok == e.count <= MAX_ATTEMPTS_PER_WINDOW
         IN  [allowed |-> ok, locked |-> FALSE,
              retryAfter |-> IF ok THEN 0
                             ELSE CeilDiv(e.windowStart + RATE_LIMIT_WINDOW_MS - t, 1000),
              lock |-> NoLockout, entry |-> e]

\* A trackFailedAttempt that never counts.
trackFailedAttemptNoCount(lock, entry, t) ==
    [lockedOut |-> FALSE, entry |-> entry, lock |-> lock]

\* trackFailedAttempt at time t: its answer and the two maps as it leaves them.
trackFailedAttempt(lock, entry, t) ==
    LET e == [WindowEntry(entry, t, LOCKOUT_WINDOW_MS) EXCEPT !.count = @ + 1]
        out == e.count >= LOCKOUT_THRESHOLD
    IN  [lockedOut |-> out, entry |-> e,
         lock |-> IF out THEN [present |-> TRUE, until |-> t + LOCKOUT_DURATION_MS]
                         ELSE lock]

\* A flagIpAddress that forgets the block duration.
FlaggedRowNoDuration(row, t, minutes) ==
    [present |-> TRUE, blocked_until |-> t, is_permanent |-> row.is_permanent]

\* The row flagIpAddress leaves.
FlaggedRow(row, t, minutes) ==
    [present |-> TRUE, blocked_until |-> t + minutes * 60 * 1000,
     is_permanent |-> row.is_permanent]

\* The voucher's expiry test.
Expired(v, t) == v.expires_at # 0 /\ v.expires_at < t

\* The ledger row INSERT ... ON DUPLICATE KEY UPDATE used_at = NOW() leaves.
UsageRow(row, t) == [present |-> TRUE, used_at |-> t]

\* The status code of the route for a result of validateVoucherSecure.
RouteStatus(op, r) ==
    IF op = "use" THEN (IF r.valid THEN 200 ELSE 400)
    ELSE CASE r.ipBlocked -> 403
           [] ~r.ipBlocked /\ r.rateLimited -> 429
           [] OTHER -> IF r.valid THEN 200 ELSE 400

(***************************************************************************)
(* Voucher-security service: the requests                                  *)
(***************************************************************************)
\* validateVoucherSecure returns r and the route answers.
VFinish(p, r) ==
    /\ vpc' = [vpc EXCEPT ![p] = "done"]
    /\ vreq' = [vreq EXCEPT ![p].result = r,
                            ![p].http = RouteStatus(vreq[p].op, r)]

VGo(p, next) ==
    /\ vpc' = [vpc EXCEPT ![p] = next]
    /\ UNCHANGED vreq

\* A request that is a denial with message m and flags as in r.
Denied(r, m) == [r EXCEPT !.message = m]

\* A request of the portal for code c arrives from the source IP.
VArrive(p, op, c) ==
    /\ UNCHANGED nonSecVars
    /\ vpc[p] \in {"idle", "done"}
    /\ \A q \in Before(p) : vpc[q] \notin {"idle", "done"}
    /\ WindowEntry(rateLimitStore, now, RATE_LIMIT_WINDOW_MS).count
           < MAX_ATTEMPTS_PER_WINDOW + MaxOver
    /\ vreq' = [vreq EXCEPT ![p] = [NoVreq EXCEPT !.op = op, !.code = c]]
    /\ vpc' = [vpc EXCEPT ![p] = "block"]
    /\ UNCHANGED <<now, rateLimitStore, failedAttemptsStore, lockedOutIps,
                   flagged_ips, voucher, voucher_usage, secFault, passes, marks>>

\* 1. await isIpBlocked(ipAddress); a failing query counts as not blocked.
VBlock(p) ==
    /\ UNCHANGED nonSecVars
    /\ vpc[p] = "block"
    /\ \/ /\ IF isIpBlocked(flagged_ips, now)
             THEN VFinish(p, Denied([NoResult EXCEPT !.ipBlocked = TRUE], "Access denied"))
             ELSE VGo(p, "rate")
          /\ UNCHANGED secFault
       \/ /\ VGo(p, "rate")
          /\ secFault' = TRUE
    /\ UNCHANGED <<now, rateLimitStore, failedAttemptsStore, lockedOutIps,
                   flagged_ips, voucher, voucher_usage, passes, marks>>

\* 2. checkRateLimit(ipAddress).
VRate(p) ==
    /\ UNCHANGED nonSecVars
    /\ vpc[p] = "rate"
    /\ LET r == checkRateLimit(lockedOutIps, rateLimitStore, now)
           fresh == ~rateLimitStore.present
                    \/ r.entry.windowStart # rateLimitStore.windowStart
       IN  /\ lockedOutIps' = r.lock
           /\ rateLimitStore' = r.entry
           /\ passes' = IF r.locked THEN passes
                        ELSE (IF fresh THEN 0 ELSE passes) + (IF r.allowed THEN 1 ELSE 0)
           /\ IF r.allowed
              THEN VGo(p, "lookup")
              ELSE VFinish(p, [Denied([NoResult EXCEPT !.rateLimited = TRUE],
                                      IF r.locked THEN "Too many attempts"
                                      ELSE "Rate limit exceeded")
                               EXCEPT !.retryAfter = r.retryAfter])
    /\ UNCHANGED <<now, failedAttemptsStore, flagged_ips, voucher, voucher_usage,
                   secFault, marks>>

\* 3.-5. The voucher lookup (vouchers table, then orders), and what follows
\* it without another await: trackFailedAttempt for a code that was not
\* found, the status and expiry tests for one that was.  A failing lookup
\* query is not caught by the service: the route hands it to the error handler.
VLookup(p) ==
    /\ UNCHANGED nonSecVars
    /\ vpc[p] = "lookup"
    /\ \/ /\ secFault' = TRUE
          /\ vpc' = [vpc EXCEPT ![p] = "done"]
          /\ vreq' = [vreq EXCEPT ![p].http = 500]
          /\ UNCHANGED <<failedAttemptsStore, lockedOutIps>>
       \/ /\ UNCHANGED secFault
          /\ IF vreq[p].code = "bogus"
             THEN LET t == trackFailedAttempt(lockedOutIps, failedAttemptsStore, now)
                  IN  /\ failedAttemptsStore' = t.entry
                      /\ lockedOutIps' = t.lock
                      /\ IF t.lockedOut
                         THEN /\ vpc' = [vpc EXCEPT ![p] = "flag"]
                              /\ vreq' = [vreq EXCEPT ![p].lookedUp = TRUE]
                         ELSE /\ vpc' = [vpc EXCEPT ![p] = "done"]
                              /\ vreq' = [vreq EXCEPT
                                   ![p].lookedUp = TRUE,
                                   ![p].result = Denied(NoResult, "Voucher code not found"),
                                   ![p].http = 400]
             ELSE /\ UNCHANGED <<failedAttemptsStore, lockedOutIps>>
                  /\ LET deny(r) == /\ vpc' = [vpc EXCEPT ![p] = "done"]
                                    /\ vreq' = [vreq EXCEPT ![p].lookedUp = TRUE,
                                                            ![p].result = r,
                                                            ![p].http = 400]
                     IN  CASE voucher.status = "DISABLED" ->
                                  deny(Denied(NoResult, "This voucher has been disabled"))
                           [] voucher.status = "USED" ->
                                  deny(Denied([NoResult EXCEPT !.alreadyUsed = TRUE],
                                              "This voucher has already been used"))
                           [] voucher.status = "ACTIVE" /\ Expired(voucher, now) ->
                                  deny(Denied(NoResult, "This voucher has expired"))
                           [] OTHER ->
                                  /\ vpc' = [vpc EXCEPT ![p] = "used"]
                                  /\ vreq' = [vreq EXCEPT ![p].lookedUp = TRUE]
    /\ UNCHANGED <<now, rateLimitStore, flagged_ips, voucher, voucher_usage,
                   passes, marks>>

\* flagIpAddress after the lockout threshold was reached (it swallows a
\* failing INSERT), and the answer.
VFlag(p) ==
    /\ UNCHANGED nonSecVars
    /\ vpc[p] = "flag"
    /\ \/ /\ flagged_ips' = FlaggedRow(flagged_ips, now, BlockDurationMinutes)
          /\ UNCHANGED secFault
       \/ /\ UNCHANGED flagged_ips
          /\ secFault' = TRUE
    /\ VFinish(p, Denied([NoResult EXCEPT !.ipBlocked = TRUE], "Too many failed attempts"))
    /\ UNCHANGED <<now, rateLimitStore, failedAttemptsStore, lockedOutIps, voucher,
                   voucher_usage, passes, marks>>

\* 6. checkVoucherUsed, first query: the usage ledger.  Its catch answers
\* used: false.
VUsed(p) ==
    /\ UNCHANGED nonSecVars
    /\ vpc[p] = "used"
    /\ \/ /\ UNCHANGED secFault
          /\ IF voucher_usage.present
             THEN VFinish(p, Denied([NoResult EXCEPT !.alreadyUsed = TRUE],
                                    "This voucher has already been used"))
             ELSE VGo(p, "acct")
       \/ /\ secFault' = TRUE
          /\ VGo(p, "session")
    /\ UNCHANGED <<now, rateLimitStore, failedAttemptsStore, lockedOutIps,
                   flagged_ips, voucher, voucher_usage, passes, marks>>

\* 6. checkVoucherUsed, second query: any accounting session of the username.
VAcct(p) ==
    /\ UNCHANGED nonSecVars
    /\ vpc[p] = "acct"
    /\ \/ /\ UNCHANGED secFault
          /\ IF voucher.acct # "none"
             THEN VFinish(p, Denied([NoResult EXCEPT !.alreadyUsed = TRUE],
                                    "This voucher has already been used"))
             ELSE VGo(p, "session")
       \/ /\ secFault' = TRUE
          /\ VGo(p, "session")
    /\ UNCHANGED <<now, rateLimitStore, failedAttemptsStore, lockedOutIps,
                   flagged_ips, voucher, voucher_usage, passes, marks>>

\* 7.-8. hasActiveSession (its catch answers active: false) and the verdict;
\* POST /voucher/use goes on to markVoucherUsed.
VSession(p) ==
    /\ UNCHANGED nonSecVars
    /\ vpc[p] = "session"
    /\ \E failed \in BOOLEAN :
         /\ secFault' = (secFault \/ failed)
         /\ IF ~failed /\ voucher.acct = "active"
            THEN VFinish(p, Denied([NoResult EXCEPT !.hasActiveSession = TRUE],
                                   "This voucher is currently in use"))
            ELSE LET r == Denied([NoResult EXCEPT !.valid = TRUE], "Voucher is valid")
                 IN  IF vreq[p].op = "use"
                     THEN /\ vpc' = [vpc EXCEPT ![p] = "mark"]
                          /\ vreq' = [vreq EXCEPT ![p].result = r]
                     ELSE VFinish(p, r)
    /\ UNCHANGED <<now, rateLimitStore, failedAttemptsStore, lockedOutIps,
                   flagged_ips, voucher, voucher_usage, passes, marks>>

\* markVoucherUsed, first statement: the ledger INSERT.  A failure is
\* answered 500.
VMark(p) ==
    /\ UNCHANGED nonSecVars
    /\ vpc[p] = "mark"
    /\ \/ /\ voucher_usage' = UsageRow(voucher_usage, now)
          /\ VGo(p, "markStatus")
          /\ UNCHANGED secFault
       \/ /\ UNCHANGED voucher_usage
          /\ secFault' = TRUE
          /\ vpc' = [vpc EXCEPT ![p] = "done"]
          /\ vreq' = [vreq EXCEPT ![p].http = 500]
    /\ UNCHANGED <<now, rateLimitStore, failedAttemptsStore, lockedOutIps,
                   flagged_ips, voucher, passes, marks>>

\* markVoucherUsed, second statement: UPDATE vouchers SET status = 'USED',
\* and the answer of the route.
VMarkStatus(p) ==
    /\ UNCHANGED nonSecVars
    /\ vpc[p] = "markStatus"
    /\ \/ /\ voucher' = [voucher EXCEPT !.status = "USED"]
          /\ marks' = marks + 1
          /\ vpc' = [vpc EXCEPT ![p] = "done"]
          /\ vreq' = [vreq EXCEPT ![p].http = 200]
          /\ UNCHANGED secFault
       \/ /\ UNCHANGED <<voucher, marks>>
          /\ secFault' = TRUE
          /\ vpc' = [vpc EXCEPT ![p] = "done"]
          /\ vreq' = [vreq EXCEPT ![p].http = 500]
    /\ UNCHANGED <<now, rateLimitStore, failedAttemptsStore, lockedOutIps,
                   flagged_ips, voucher_usage, passes>>

\* Time passes: a short step, or the length of a block.
Tick ==
    /\ UNCHANGED nonSecVars
    /\ now < MaxTicks * TickMs
    /\ \E d \in {TickMs, BlockDurationMinutes * 60 * 1000} : now' = now + d
    /\ UNCHANGED <<rateLimitStore, failedAttemptsStore, lockedOutIps, flagged_ips,
                   voucher, voucher_usage, vpc, vreq, secFault, passes, marks>>

\* An administrator blocks the source IP by hand (flagIpAddress, 60 minutes).
AdminBlock ==
    /\ UNCHANGED nonSecVars
    /\ ~isIpBlocked(flagged_ips, now)
    /\ flagged_ips' = FlaggedRow(flagged_ips, now, BlockDurationMinutes)
    /\ UNCHANGED <<now, rateLimitStore, failedAttemptsStore, lockedOutIps,
                   voucher, voucher_usage, vpc, vreq, secFault, passes, marks>>

\* The RADIUS server opens an accounting session for the voucher's username.
SessionStart ==
    /\ UNCHANGED nonSecVars
    /\ voucher.acct = "none"
    /\ voucher' = [voucher EXCEPT !.acct = "active"]
    /\ UNCHANGED <<now, rateLimitStore, failedAttemptsStore, lockedOutIps,
                   flagged_ips, voucher_usage, vpc, vreq, secFault, passes, marks>>

\* The RADIUS server closes it.
SessionStop ==
    /\ UNCHANGED nonSecVars
    /\ voucher.acct = "active"
    /\ voucher' = [voucher EXCEPT !.acct = "closed"]
    /\ UNCHANGED <<now, rateLimitStore, failedAttemptsStore, lockedOutIps,
                   flagged_ips, voucher_usage, vpc, vreq, secFault, passes, marks>>

\* POST /voucher/validate, requests served one after the other.
ValidateSeq(p) ==
    /\ \A q \in Procs : vpc[q] \in {"idle", "done"}
    /\ \E c \in Codes : VArrive(p, "validate", c)

\* POST /voucher/validate or /voucher/use for the voucher's code.
VStart(p) ==
    \E op \in VoucherOps : VArrive(p, op, "good")

\* The defences of the voucher-security service against one source IP:
\* validations of a good or a bogus code, served one after the other, while
\* time passes.
NextSec ==
    \/ Tick
    \/ \E p \in Procs : ValidateSeq(p)
    \/ \E p \in Procs : VBlock(p)
    \/ \E p \in Procs : VRate(p)
    \/ \E p \in Procs : VLookup(p)
    \/ \E p \in Procs : VFlag(p)
    \/ \E p \in Procs : VUsed(p)
    \/ \E p \in Procs : VAcct(p)
    \/ \E p \in Procs : VSession(p)

SpecSec == InitIp /\ [][NextSec]_vars

\* The life of one voucher: concurrent validate and use requests for its
\* code, the accounting sessions the RADIUS server records for it, and an
\* administrator who may block the source IP.
NextUse ==
    \/ AdminBlock
    \/ SessionStart
    \/ SessionStop
    \/ \E p \in Procs : VStart(p)
    \/ \E p \in Procs : VBlock(p)
    \/ \E p \in Procs : VRate(p)
    \/ \E p \in Procs : VLookup(p)
    \/ \E p \in Procs : VUsed(p)
    \/ \E p \in Procs : VAcct(p)
    \/ \E p \in Procs : VSession(p)
    \/ \E p \in Procs : VMark(p)
    \/ \E p \in Procs : VMarkStatus(p)

SpecUse == InitVoucher /\ [][NextUse]_vars

\* One voucher over time: validations of its code served one after the
\* other while the clock passes its expiry and the RADIUS server records
\* its accounting sessions.
NextExpiry ==
    \/ Tick
    \/ SessionStart
    \/ SessionStop
    \/ \E p \in Procs : /\ \A q \in Procs : vpc[q] \in {"idle", "done"}
                         /\ VArrive(p, "validate", "good")
    \/ \E p \in Procs : VBlock(p)
    \/ \E p \in Procs : VRate(p)
    \/ \E p \in Procs : VLookup(p)
    \/ \E p \in Procs : VUsed(p)
    \/ \E p \in Procs : VAcct(p)
    \/ \E p \in Procs : VSession(p)

SpecExpiry == InitVoucher /\ [][NextExpiry]_vars

\* One source IP and one voucher over time: validations of the voucher's
\* code and of a code that does not exist, served one after the other, while
\* the voucher expires and is used.
NextPenalty ==
    \/ /\ UNCHANGED nonSecVars
       /\ voucher.expires_at # 0 /\ now <= voucher.expires_at
       /\ now' = voucher.expires_at + 1
       /\ UNCHANGED <<rateLimitStore, failedAttemptsStore, lockedOutIps,
                      flagged_ips, voucher, voucher_usage, vpc, vreq, secFault,
                      passes, marks>>
    \/ SessionStart
    \/ SessionStop
    \/ \E p \in Procs : ValidateSeq(p)
    \/ \E p \in Procs : VBlock(p)
    \/ \E p \in Procs : VRate(p)
    \/ \E p \in Procs : VLookup(p)
    \/ \E p \in Procs : VUsed(p)
    \/ \E p \in Procs : VAcct(p)
    \/ \E p \in Procs : VSession(p)

SpecPenalty == InitVoucher /\ [][NextPenalty]_vars

\* One source IP that presents codes that do not exist, one request after the
\* other, while the clock advances by half a rate-limit window at a time, so
\* that requests arrive inside a window, at its last instant and after it.
NextRate ==
    \/ /\ UNCHANGED nonSecVars
       /\ now < MaxTicks * TickMs
       /\ now' = now + RATE_LIMIT_WINDOW_MS \div 2
       /\ UNCHANGED <<rateLimitStore, failedAttemptsStore, lockedOutIps,
                      flagged_ips, voucher, voucher_usage, vpc, vreq, secFault,
                      passes, marks>>
    \/ /\ \A q \in Procs : vpc[q] \in {"idle", "done"}
       /\ \E p \in Procs : VArrive(p, "validate", "bogus")
    \/ \E p \in Procs : VBlock(p)
    \/ \E p \in Procs : VRate(p)
    \/ \E p \in Procs : VLookup(p)
    \/ \E p \in Procs : VFlag(p)

SpecRate == InitIp /\ [][NextRate]_vars

(***************************************************************************)
(* RADIUS service: activateVoucher                                         *)
(***************************************************************************)
\* The input test of activateVoucher: !username || !password || !minutes.
RejectsInput(a) ==
    ~Truthy(a.username) \/ ~Truthy(a.password) \/ ~Truthy(a.minutes)

\* A duration left in minutes.
sessionSecondsInMinutes(a) == a.minutes.n

\* Number(minutes) * 60.
sessionSeconds(a) == a.minutes.n * 60

\* The speeds in force: the explicit ones, or those of the legacy rate string
\* when neither explicit one is set.
\* The download speed without the legacy fallback.
downKbpsExplicitOnly(a) == a.speedDownKbps

downKbps(a) ==
    IF /\ Truthy(a.rate) /\ ~Truthy(a.speedDownKbps) /\ ~Truthy(a.speedUpKbps)
       /\ RateMatch(a.rate.s).ok
    THEN Num(ParseDigits(RateMatch(a.rate.s).down)) ELSE a.speedDownKbps

upKbps(a) ==
    IF /\ Truthy(a.rate) /\ ~Truthy(a.speedDownKbps) /\ ~Truthy(a.speedUpKbps)
       /\ RateMatch(a.rate.s).ok
    THEN Num(ParseDigits(RateMatch(a.rate.s).up)) ELSE a.speedUpKbps

\* The records activateVoucher writes, in order, for accepted arguments a at
\* time t.  The value column holds String(value); the value is kept as it is.
Writes(a, t) ==
    << <<"Cleartext-Password", a.password>>,
       <<"Expiration", DateStr(t + sessionSeconds(a) * 1000)>>,
       <<"Session-Timeout", Num(sessionSeconds(a))>>,
       <<"Idle-Timeout", Num(300)>> >>
    \o (IF Truthy(downKbps(a)) /\ Truthy(upKbps(a))
        THEN << <<"Mikrotik-Rate-Limit", RateStr(downKbps(a).n, upKbps(a).n)>>,
                <<"WISPr-Bandwidth-Max-Down", Num(downKbps(a).n * 1000)>>,
                <<"WISPr-Bandwidth-Max-Up", Num(upKbps(a).n * 1000)>> >>
        ELSE << >>)
    \o (IF Truthy(a.dataMb) /\ a.dataMb.n > 0
        THEN << <<"Mikrotik-Total-Limit", Num(a.dataMb.n * 1024 * 1024)>> >>
        ELSE << >>)

\* A caller invokes activateVoucher.
AvCall ==
    /\ UNCHANGED nonRadVars
    /\ av.pc \in {"idle", "returned", "threw"}
    /\ \E a \in ArgChoices : av' = [NoCall EXCEPT !.args = a, !.pc = "check"]
    /\ UNCHANGED radius

\* The input test: throw, or take the time and go on to the writes.
AvCheck ==
    /\ UNCHANGED nonRadVars
    /\ av.pc = "check"
    /\ av' = IF RejectsInput(av.args)
             THEN [av EXCEPT !.pc = "threw", !.err = "input"]
             ELSE [av EXCEPT !.pc = "write", !.t = now]
    /\ UNCHANGED radius

\* The next setRadcheck/setRadreply: the upsert, or a failing query that
\* ends the call.
AvWrite ==
    /\ UNCHANGED nonRadVars
    /\ av.pc = "write"
    /\ av.k <= Len(Writes(av.args, av.t))
    /\ \/ /\ radius' = [radius EXCEPT ![Writes(av.args, av.t)[av.k][1]] =
                                         Writes(av.args, av.t)[av.k][2]]
          /\ av' = [av EXCEPT !.k = @ + 1, !.wrote = @ + 1]
       \/ /\ av' = [av EXCEPT !.pc = "threw", !.err = "query"]
          /\ UNCHANGED radius

\* All writes done: the call returns.
AvReturn ==
    /\ UNCHANGED nonRadVars
    /\ av.pc = "write"
    /\ av.k > Len(Writes(av.args, av.t))
    /\ av' = [av EXCEPT !.pc = "returned",
                        !.ret = [sessionSeconds |-> Num(sessionSeconds(av.args)),
                                 speedDownKbps |-> downKbps(av.args),
                                 speedUpKbps |-> upKbps(av.args)]]
    /\ UNCHANGED radius

\* Callers of the RADIUS service, one call at a time.
NextRadius ==
    \/ AvCall
    \/ AvCheck
    \/ AvWrite
    \/ AvReturn

SpecRadius == Init /\ [][NextRadius]_vars

(***************************************************************************)
(* RADIUS service: the Expiration codec                                    *)
(***************************************************************************)
\* Hours around each sample instant that are tried.
MaxStep == 2

Null == [type |-> "null"]

\* The server's time zone: the offsets from UTC, in seconds, in summer and in
\* winter, and the instant (UTC seconds) at which summer time ends.  Kampala
\* has no summer time; Berlin goes from +2h to +1h on 25 Oct 2026 01:00 UTC.
\* Only that one transition is kept: the sample instants lie in the summer
\* before it or in the winter after it.
Zones == {[name |-> "Africa/Kampala", std |-> 10800, dst |-> 10800, dstEnd |-> 0],
          [name |-> "Europe/Berlin", std |-> 3600, dst |-> 7200,
           dstEnd |-> 1792890000]}

\* LocalTZA: the offset in force at UTC instant t.
Offset(z, t) == IF t < z.dstEnd THEN z.dst ELSE z.std

\* UTC(tlocal) of the language: a wall-clock time that occurs twice is read
\* with the offset before the transition.
LocalToUtc(z, l) == IF Offset(z, l - z.dst) = z.dst THEN l - z.dst ELSE l - z.std

\* Day number (days since 1 Jan 1970) of a calendar date; the month is 1..12,
\* the day may overflow the month (MakeDay).
DaysFromCivil(y, m, d) ==
    LET yy == IF m <= 2 THEN y - 1 ELSE y
        era == yy \div 400
        yoe == yy - era * 400
        doy == (153 * (IF m > 2 THEN m - 3 ELSE m + 9) + 2) \div 5 + d - 1
        doe == yoe * 365 + yoe \div 4 - yoe \div 100 + doy
    IN  era * 146097 + doe - 719468

\* The calendar date of a day number.
CivilFromDays(days) ==
    LET z == days + 719468
        era == z \div 146097
        doe == z - era * 146097
        yoe == (doe - doe \div 1460 + doe \div 36524 - doe \div 146096) \div 365
        doy == doe - (365 * yoe + yoe \div 4 - yoe \div 100)
        mp == (5 * doy + 2) \div 153
        d == doy - (153 * mp + 2) \div 5 + 1
        m == IF mp < 10 THEN mp + 3 ELSE mp - 9
    IN  [year |-> yoe + era * 400 + (IF m <= 2 THEN 1 ELSE 0), month |-> m, day |-> d]

\* getFullYear, getMonth (+1), getDate, getHours, getMinutes, getSeconds of
\* the Date of UTC instant t in zone z.
LocalFields(z, t) ==
    LET l == t + Offset(z, t)
        c == CivilFromDays(l \div 86400)
        r == l % 86400
    IN  [year |-> c.year, month |-> c.month, day |-> c.day,
         hh |-> r \div 3600, mm |-> (r % 3600) \div 60, ss |-> r % 60]

\* new Date(year, month, day, hh, mm, ss): years 0..99 mean 1900..1999.
MakeDate(z, y, m, d, hh, mm, ss) ==
    LET yy == IF y >= 0 /\ y <= 99 THEN 1900 + y ELSE y
    IN  LocalToUtc(z, DaysFromCivil(yy, m, d) * 86400 + hh * 3600 + mm * 60 + ss)

MonthNames ==
    <<<<"J", "a", "n">>,
      <<"F", "e", "b">>,
      <<"M", "a", "r">>,
      <<"A", "p", "r">>,
      <<"M", "a", "y">>,
      <<"J", "u", "n">>,
      <<"J", "u", "l">>,
      <<"A", "u", "g">>,
      <<"S", "e", "p">>,
      <<"O", "c", "t">>,
      <<"N", "o", "v">>,
      <<"D", "e", "c">>>>

\* A pad that pads nothing.
padNone(n) == ToDigits(n)

\* pad: String(n).padStart(2, "0").
pad(n) == IF Len(ToDigits(n)) < 2 THEN <<"0">> \o ToDigits(n) ELSE ToDigits(n)

\* radiusExpiration(d) for the Date of instant t: "DD Mon YYYY HH:MM:SS".
radiusExpiration(z, t) ==
    LET f == LocalFields(z, t)
    IN  pad(f.day) \o <<" ">> \o MonthNames[f.month] \o <<" ">>
        \o ToDigits(f.year) \o <<" ">>
        \o pad(f.hh) \o <<":">> \o pad(f.mm) \o <<":">> \o pad(f.ss)

\* \w of the pattern.
WordChars ==
    {"A", "B", "C", "D", "E", "F", "G", "H", "I", "J", "K", "L", "M", "N", "O", "P", "Q", "R", "S", "T", "U", "V", "W", "X", "Y", "Z",
     "a", "b", "c", "d", "e", "f", "g", "h", "i", "j", "k", "l", "m", "n", "o", "p", "q", "r", "s", "t", "u", "v", "w", "x", "y", "z",
     "0", "1", "2", "3", "4", "5", "6", "7", "8", "9", "_"}

AllDigits(cs) == \A i \in 1 .. Len(cs) : IsDigit(cs[i])

\* str.match(/^(\d{2}) (\w{3}) (\d{4}) (\d{2}):(\d{2}):(\d{2})$/).
ExpirationMatch(cs) ==
    /\ Len(cs) = 20
    /\ AllDigits(SubSeq(cs, 1, 2)) /\ cs[3] = " "
    /\ \A i \in 4 .. 6 : cs[i] \in WordChars
    /\ cs[7] = " " /\ AllDigits(SubSeq(cs, 8, 11)) /\ cs[12] = " "
    /\ AllDigits(SubSeq(cs, 13, 14)) /\ cs[15] = ":"
    /\ AllDigits(SubSeq(cs, 16, 17)) /\ cs[18] = ":"
    /\ AllDigits(SubSeq(cs, 19, 20))

\* months[mon]: the month number (1..12) of an abbreviation, 0 when unknown.
MonthOf(cs) ==
    IF \E m \in 1 .. 12 : MonthNames[m] = cs
    THEN CHOOSE m \in 1 .. 12 : MonthNames[m] = cs
    ELSE 0

\* parseRadiusExpiration(str) in zone z: the instant, or null.  generic is
\* what new Date(str) makes of the string (null when it is not a date).
parseRadiusExpiration(z, cs, generic) ==
    IF Len(cs) = 0 THEN Null
    ELSE IF ExpirationMatch(cs) /\ MonthOf(SubSeq(cs, 4, 6)) # 0
    THEN Num(MakeDate(z, ParseDigits(SubSeq(cs, 8, 11)), MonthOf(SubSeq(cs, 4, 6)),
                      ParseDigits(SubSeq(cs, 1, 2)), ParseDigits(SubSeq(cs, 13, 14)),
                      ParseDigits(SubSeq(cs, 16, 17)), ParseDigits(SubSeq(cs, 19, 20))))
    ELSE generic

\* The instants encoded: around 9 Sep 2001 01:46:40, 4 Jul 2026 09:05:07,
\* the end of summer time 2026, 31 Dec 2026 20:59:59 and 29 Feb 2028
\* 20:59:59 (UTC), whole hours away and a second to either side.
TimeChoices ==
    {b + h * 3600 + e :
        b \in {1000000000, 1783155907, 1792890000, 1798750799, 1835470799},
        h \in -MaxStep .. MaxStep, e \in {-1, 0, 1}}

\* Strings handed to the parser that the codec did not write, with what
\* new Date(str) makes of them: "", "garbage", "31 Foo 2026 10:00:00",
\* "2026-10-25 10:00:00" and "2026-10-25T10:00:00Z".
StringChoices ==
    {[s |-> << >>, generic |-> Null],
     [s |-> <<"g", "a", "r", "b", "a", "g", "e">>, generic |-> Null],
     [s |-> <<"3", "1", " ", "F", "o", "o", " ", "2", "0", "2", "6", " ", "1", "0", ":", "0", "0", ":", "0", "0">>, generic |-> Null],
     [s |-> <<"2", "0", "2", "6", "-", "1", "0", "-", "2", "5", " ", "1", "0", ":", "0", "0", ":", "0", "0">>, generic |-> Null],
     [s |-> <<"2", "0", "2", "6", "-", "1", "0", "-", "2", "5", "T", "1", "0", ":", "0", "0", ":", "0", "0", "Z">>, generic |-> Num(1792922400)]}

\* radiusExpiration applied to an instant.
Encode ==
    /\ UNCHANGED nonFnVars
    /\ calc.fn = "-"
    /\ \E z \in Zones, t \in TimeChoices :
         calc' = [fn |-> "radiusExpiration", input |-> [zone |-> z, t |-> t],
                  output |-> Text(radiusExpiration(z, t))]

\* parseRadiusExpiration applied to the string just written.
Decode ==
    /\ UNCHANGED nonFnVars
    /\ calc.fn = "radiusExpiration"
    /\ calc' = [fn |-> "parseRadiusExpiration",
                input |-> [zone |-> calc.input.zone, t |-> calc.input.t,
                           encoded |-> TRUE, s |-> calc.output.s, generic |-> Null],
                output |-> parseRadiusExpiration(calc.input.zone, calc.output.s, Null)]

\* parseRadiusExpiration applied to a string from elsewhere.
DecodeString ==
    /\ UNCHANGED nonFnVars
    /\ calc.fn = "-"
    /\ \E z \in Zones, x \in StringChoices :
         calc' = [fn |-> "parseRadiusExpiration",
                  input |-> [zone |-> z, t |-> 0, encoded |-> FALSE,
                             s |-> x.s, generic |-> x.generic],
                  output |-> parseRadiusExpiration(z, x.s, x.generic)]

NextCodec ==
    \/ Encode
    \/ Decode
    \/ DecodeString

SpecCodec == Init /\ [][NextCodec]_vars

(***************************************************************************)
(* RADIUS service: getVoucherStatus                                        *)
(***************************************************************************)
\* new Date() of the status query: 4 Jul 2026 09:05:07 UTC, in seconds.
StatusNow == 1783155907

\* A status derivation that tests the expiry before the reject override.
getVoucherStatusExpiryFirst(z, check, reply, t) ==
    LET expDate == parseRadiusExpiration(z, reply.expiration.s, reply.expiration.generic)
    IN  IF reply.expiration # Absent /\ Len(reply.expiration.s) > 0
           /\ expDate # Null /\ expDate.n < t
        THEN "EXPIRED"
        ELSE IF check.authType = Str("Reject") THEN "DISABLED"
        ELSE IF Truthy(check.password) THEN "ACTIVE"
        ELSE "UNKNOWN"

\* The status getVoucherStatus derives from the radcheck and radreply records
\* of a username at time t (seconds).
getVoucherStatus(z, check, reply, t) ==
    IF check.authType = Str("Reject") THEN "DISABLED"
    ELSE IF reply.expiration # Absent /\ Len(reply.expiration.s) > 0
    THEN LET expDate == parseRadiusExpiration(z, reply.expiration.s,
                                              reply.expiration.generic)
         IN  IF expDate # Null /\ expDate.n < t THEN "EXPIRED"
             ELSE IF Truthy(check.password) THEN "ACTIVE"
             ELSE "UNKNOWN"
    ELSE IF Truthy(check.password) THEN "ACTIVE"
    ELSE "UNKNOWN"

\* The Auth-Type record: none, the reject override, or another type.
AuthTypeChoices == {Absent, Str("Reject"), Str("Accept")}

\* The Cleartext-Password record: none, or the one activateVoucher wrote.
StoredPasswordChoices == {Absent, Str("pw")}

\* The Expiration record: none, one radiusExpiration wrote for an instant up
\* to a minute before or after the query, or a string from elsewhere.
StoredExpirationChoices(z) ==
    {Absent}
    \cup {[s |-> radiusExpiration(z, StatusNow + d), generic |-> Null] :
            d \in {-60, -1, 0, 1, 60}}
    \cup StringChoices

\* getVoucherStatus applied to the records of a username.
GetStatus ==
    /\ UNCHANGED nonFnVars
    /\ calc.fn = "-"
    /\ \E z \in Zones, a \in AuthTypeChoices, pw \in StoredPasswordChoices :
         \E e \in StoredExpirationChoices(z) :
            calc' = [fn |-> "getVoucherStatus",
                     input |-> [zone |-> z, now |-> StatusNow,
                                check |-> [authType |-> a, password |-> pw],
                                reply |-> [expiration |-> e]],
                     output |-> Str(getVoucherStatus(
                                      z, [authType |-> a, password |-> pw],
                                      [expiration |-> e], StatusNow))]

NextStatus == GetStatus

SpecStatus == Init /\ [][NextStatus]_vars

(***************************************************************************)
(* RADIUS service: deactivateVoucher and reactivateVoucher                 *)
(***************************************************************************)
\* What getVoucherStatus reports for the stored records at time t (ms), on a
\* server in Kampala; the Expiration record is the text radiusExpiration
\* wrote.
storedStatus(recs, t) ==
    LET z == CHOOSE x \in Zones : x.name = "Africa/Kampala"
    IN  getVoucherStatus(
            z,
            [authType |-> recs["Auth-Type"], password |-> recs["Cleartext-Password"]],
            [expiration |->
                IF recs["Expiration"] = Absent THEN Absent
                ELSE [s |-> radiusExpiration(z, recs["Expiration"].seconds),
                      generic |-> Null]],
            t \div 1000)

\* The records after deactivateVoucher at time t, done of its two writes
\* completed: Auth-Type := Reject, then Expiration := a day ago.
deactivatedRecords(recs, t, done) ==
    [recs EXCEPT !["Auth-Type"] = IF done >= 1 THEN Str("Reject") ELSE @,
                 !["Expiration"] = IF done >= 2 THEN DateStr(t - 86400000) ELSE @]

\* deactivateVoucher(username): it throws without a username and when a
\* write fails.  The call notes what getVoucherStatus reported before it.
Deactivate ==
    /\ UNCHANGED <<payVars, secVars, macVars, genVars>>
    /\ av.pc \in {"idle", "returned", "threw"}
    /\ \E u \in UsernameChoices, done \in 0 .. 2 :
         LET n == IF Truthy(u) THEN done ELSE 0
         IN  /\ radius' = deactivatedRecords(radius, now, n)
             /\ calc' = [fn |-> "deactivateVoucher",
                         input |-> [status |-> Str(storedStatus(radius, now)),
                                    records |-> radius],
                         output |-> Str(IF n = 2 THEN "deactivated" ELSE "threw")]
    /\ UNCHANGED av

\* reactivateVoucher({ username, password, minutes }): it deletes the
\* Auth-Type record and, given a password and a duration, goes on into
\* activateVoucher.  It throws without a username and when the DELETE fails.
Reactivate ==
    /\ UNCHANGED <<payVars, secVars, macVars, genVars>>
    /\ av.pc \in {"idle", "returned", "threw"}
    /\ \E u \in UsernameChoices, full \in BOOLEAN, ok \in BOOLEAN :
         LET a == [NoArgs EXCEPT !.username = u,
                                 !.password = IF full THEN Str("pw") ELSE Undef,
                                 !.minutes = IF full THEN Num(MaxMinutes) ELSE Undef]
             before == IF calc.fn = "deactivateVoucher" /\ calc.output = Str("deactivated")
                       THEN calc.input
                       ELSE [status |-> Str("-"), records |-> radius]
         IN  IF ~Truthy(u) \/ ~ok
             THEN /\ calc' = [fn |-> "reactivateVoucher", input |-> before,
                              output |-> Str("threw")]
                  /\ UNCHANGED <<radius, av>>
             ELSE /\ radius' = [radius EXCEPT !["Auth-Type"] = Absent]
                  /\ IF full
                     THEN /\ av' = [NoCall EXCEPT !.args = a, !.pc = "check"]
                          /\ calc' = [fn |-> "reactivateVoucher", input |-> before,
                                      output |-> Str("activateVoucher")]
                     ELSE /\ UNCHANGED av
                          /\ calc' = [fn |-> "reactivateVoucher", input |-> before,
                                      output |-> Str("reactivated")]

\* An operator disables and re-enables vouchers, one call at a time.
NextReactivate ==
    \/ Deactivate
    \/ Reactivate
    \/ AvCheck
    \/ AvWrite
    \/ AvReturn

SpecReactivate == Init /\ [][NextReactivate]_vars

(***************************************************************************)
(* MikroTik service: normalizeMacAddress                                   *)
(***************************************************************************)
LowerHex == <<"a", "b", "c", "d", "e", "f">>

UpperHex == <<"A", "B", "C", "D", "E", "F">>

\* [a-fA-F0-9].
IsHexChar(c) == IsDigit(c) \/ \E i \in 1 .. 6 : c = LowerHex[i] \/ c = UpperHex[i]

\* toUpperCase of a hexadecimal character.
ToUpperChar(c) ==
    IF \E i \in 1 .. 6 : c = LowerHex[i]
    THEN UpperHex[CHOOSE i \in 1 .. 6 : c = LowerHex[i]]
    ELSE c

\* Pairs joined with dashes.
JoinPairsDash(cs) ==
    [i \in 1 .. (Len(cs) + (Len(cs) \div 2) - 1) |->
        IF i % 3 = 0 THEN "-" ELSE cs[i - (i \div 3)]]

\* cleaned.match(/.{2}/g).join(":") for a string of even length.
JoinPairs(cs) ==
    [i \in 1 .. (Len(cs) + (Len(cs) \div 2) - 1) |->
        IF i % 3 = 0 THEN ":" ELSE cs[i - (i \div 3)]]

\* normalizeMacAddress(mac): the normalized text, or null.
normalizeMacAddress(cs) ==
    IF Len(cs) = 0 THEN Null
    ELSE LET cleaned == SelectSeq(cs, IsHexChar)
         IN  IF Len(cleaned) # 12 THEN Null
             ELSE Text(JoinPairs([i \in 1 .. 12 |-> ToUpperChar(cleaned[i])]))

\* What reaches the function: the twelve hexadecimal characters of six
\* devices (lower, upper and mixed case), written bare, with colons, dashes
\* or spaces between the bytes or with dots between 16-bit words; each
\* well-formed, with a character missing or added, with a letter that is no
\* hexadecimal digit appended, in braces, or followed by "xE"; and nothing.
MacInputs ==
    LET MacDigits ==
        {<<"a", "a", "b", "b", "c", "c", "d", "d", "e", "e", "f", "f">>,
         <<"A", "A", "B", "B", "C", "C", "D", "D", "E", "E", "F", "F">>,
         <<"0", "1", "2", "3", "4", "5", "6", "7", "8", "9", "a", "b">>,
         <<"a", "1", "B", "2", "c", "3", "D", "4", "e", "5", "F", "6">>,
         <<"0", "0", "1", "A", "2", "b", "3", "C", "4", "d", "5", "E">>,
         <<"F", "f", "e", "E", "d", "D", "c", "C", "b", "B", "a", "A">>}
        Grouped(cs, n, sep) ==
            [i \in 1 .. (Len(cs) + (Len(cs) - 1) \div n) |->
                IF i % (n + 1) = 0 THEN sep ELSE cs[i - (i \div (n + 1))]]
        MacForms(cs) ==
            {cs, Grouped(cs, 2, ":"), Grouped(cs, 2, "-"), Grouped(cs, 2, " "),
             Grouped(cs, 4, ".")}
    IN  {<< >>}
        \cup UNION {{f, SubSeq(f, 1, Len(f) - 1), f \o <<"0">>, f \o <<"g">>,
                     <<"{">> \o f \o <<"}">>, f \o <<"x", "E">>} :
                      f \in UNION {MacForms(cs) : cs \in MacDigits}}

\* normalizeMacAddress applied to an input.
Normalize ==
    /\ UNCHANGED nonFnVars
    /\ calc.fn = "-"
    /\ \E cs \in MacInputs :
         calc' = [fn |-> "normalizeMacAddress",
                  input |-> [s |-> cs, again |-> FALSE],
                  output |-> normalizeMacAddress(cs)]

\* normalizeMacAddress applied to its own output.
NormalizeAgain ==
    /\ UNCHANGED nonFnVars
    /\ calc.fn = "normalizeMacAddress"
    /\ ~calc.input.again
    /\ calc.output # Null
    /\ calc' = [fn |-> "normalizeMacAddress",
                input |-> [s |-> calc.output.s, again |-> TRUE],
                output |-> normalizeMacAddress(calc.output.s)]

NextMac == Normalize \/ NormalizeAgain

SpecMac == Init /\ [][NextMac]_vars

(***************************************************************************)
(* MikroTik service: authorizeMacBinding and removeMacBinding              *)
(***************************************************************************)
\* The mac argument of a call: the one hardware address in the notations
\* clients send, or a text that is no address.
MacChoices ==
    {<<"a", "a", "-", "b", "b", "-", "c", "c", "-", "d", "d", "-", "e", "e",
       "-", "f", "f">>,
     <<"A", "A", "B", "B", "C", "C", "D", "D", "E", "E", "F", "F">>,
     <<"n", "/", "a">>}

\* return { success: true, message: "No binding found" }
RmNoneFoundFailure == [success |-> FALSE, status |-> "none_found"]

RmNoneFound == [success |-> TRUE, status |-> "none_found"]

\* authorizeMacBinding up to the lookup of existing bindings: getConfig,
\* normalizeMacAddress, /ip/hotspot/ip-binding/print.  A failed lookup is
\* logged and the call goes on to create the binding.
AmLookup(c) ==
    /\ UNCHANGED nonMacVars
    /\ mb[c].pc = "idle"
    /\ \E enabled \in BOOLEAN, mac \in MacChoices, ok \in BOOLEAN :
         IF ~enabled
         THEN mb' = [mb EXCEPT ![c].op = "authorize", ![c].pc = "done",
                               ![c].ret = [success |-> FALSE, status |-> "skipped"]]
         ELSE IF normalizeMacAddress(mac) = Null
         THEN mb' = [mb EXCEPT ![c].op = "authorize", ![c].pc = "done",
                               ![c].ret = [success |-> FALSE, status |-> "failed"]]
         ELSE mb' = [mb EXCEPT ![c].op = "authorize",
                               ![c].found = IF ok THEN mikrotik ELSE {},
                               ![c].pc = IF ok /\ mikrotik # {} THEN "remove"
                                         ELSE "add"]
    /\ UNCHANGED <<mikrotik, mac_bindings>>

\* One /ip/hotspot/ip-binding/remove of the loop over the bindings found.  A
\* failed removal ends the loop, is logged, and the call goes on.
AmRemove(c) ==
    /\ UNCHANGED nonMacVars
    /\ mb[c].op = "authorize" /\ mb[c].pc = "remove"
    /\ LET b == CHOOSE x \in mb[c].found : \A y \in mb[c].found : x <= y
       IN  \/ /\ b \in mikrotik
              /\ mikrotik' = mikrotik \ {b}
              /\ mb' = [mb EXCEPT ![c].found = @ \ {b},
                                  ![c].pc = IF mb[c].found = {b} THEN "add"
                                            ELSE "remove"]
           \/ /\ mikrotik' = mikrotik
              /\ mb' = [mb EXCEPT ![c].pc = "add"]
    /\ UNCHANGED mac_bindings

\* /ip/hotspot/ip-binding/add: the router creates the binding, or the command
\* fails and the catch block takes over.
AmAdd(c) ==
    /\ UNCHANGED nonMacVars
    /\ mb[c].op = "authorize" /\ mb[c].pc = "add"
    /\ \E ok \in BOOLEAN :
         /\ mikrotik' = IF ok THEN mikrotik \cup {c} ELSE mikrotik
         /\ mb' = [mb EXCEPT ![c].pc = "log", ![c].attempted = TRUE,
                             ![c].ret = [success |-> ok,
                                         status |-> IF ok THEN "success"
                                                    ELSE "failed"]]
    /\ UNCHANGED mac_bindings

\* INSERT INTO mac_bindings: 'active' after a created binding, 'pending' in
\* the catch block; a failing insert is caught and the call returns as before.
AmLog(c) ==
    /\ UNCHANGED nonMacVars
    /\ mb[c].op = "authorize" /\ mb[c].pc = "log"
    /\ \E ok \in BOOLEAN :
         mac_bindings' =
             IF ok THEN [mac_bindings EXCEPT
                            ![c] = IF mb[c].ret.success THEN "active"
                                   ELSE "pending"]
             ELSE mac_bindings
    /\ mb' = [mb EXCEPT ![c].pc = "done"]
    /\ UNCHANGED mikrotik

\* removeMacBinding up to the lookup: getConfig, normalizeMacAddress,
\* /ip/hotspot/ip-binding/print.
RmLookup(c) ==
    /\ UNCHANGED nonMacVars
    /\ mb[c].pc = "idle"
    /\ \E enabled \in BOOLEAN, mac \in MacChoices, ok \in BOOLEAN :
         LET r == IF ~enabled THEN [success |-> FALSE, status |-> "not_enabled"]
                  ELSE IF normalizeMacAddress(mac) = Null
                  THEN [success |-> FALSE, status |-> "invalid"]
                  ELSE IF ~ok THEN [success |-> FALSE, status |-> "error"]
                  ELSE IF mikrotik = {} THEN RmNoneFound
                  ELSE [success |-> FALSE, status |-> "-"]
         IN  mb' = [mb EXCEPT ![c].op = "remove", ![c].ret = r,
                              ![c].found = IF r.status = "-" THEN mikrotik ELSE {},
                              ![c].pc = IF r.status = "-" THEN "remove" ELSE "done"]
    /\ UNCHANGED <<mikrotik, mac_bindings>>

\* One /ip/hotspot/ip-binding/remove of the loop; a failure is returned.
RmRemove(c) ==
    /\ UNCHANGED nonMacVars
    /\ mb[c].op = "remove" /\ mb[c].pc = "remove"
    /\ LET b == CHOOSE x \in mb[c].found : \A y \in mb[c].found : x <= y
       IN  \/ /\ b \in mikrotik
              /\ mikrotik' = mikrotik \ {b}
              /\ mb' = [mb EXCEPT ![c].found = @ \ {b},
                                  ![c].pc = IF mb[c].found = {b} THEN "update"
                                            ELSE "remove"]
           \/ /\ mikrotik' = mikrotik
              /\ mb' = [mb EXCEPT ![c].pc = "done",
                                  ![c].ret = [success |-> FALSE,
                                              status |-> "error"]]
    /\ UNCHANGED mac_bindings

\* UPDATE mac_bindings SET status = 'removed' WHERE mac_address = ? AND
\* status = 'active'; a failure is returned.
RmUpdate(c) ==
    /\ UNCHANGED nonMacVars
    /\ mb[c].op = "remove" /\ mb[c].pc = "update"
    /\ \/ /\ mac_bindings' = [x \in BindCalls |->
                                IF mac_bindings[x] = "active" THEN "removed"
                                ELSE mac_bindings[x]]
          /\ mb' = [mb EXCEPT ![c].pc = "done",
                              ![c].ret = [success |-> TRUE, status |-> "removed"]]
       \/ /\ mac_bindings' = mac_bindings
          /\ mb' = [mb EXCEPT ![c].pc = "done",
                              ![c].ret = [success |-> FALSE, status |-> "error"]]
    /\ UNCHANGED mikrotik

NextBinding ==
    \E c \in BindCalls :
       \/ AmLookup(c) \/ AmRemove(c) \/ AmAdd(c) \/ AmLog(c)
       \/ RmLookup(c) \/ RmRemove(c) \/ RmUpdate(c)

SpecBinding == Init /\ [][NextBinding]_vars

(***************************************************************************)
(* Voucher codes: purchase init and voucher generation                     *)
(***************************************************************************)
\* The unique key of the table on the code column rejects the INSERT.
DuplicateKey(rows, code) == \E i \in 1 .. Len(rows) : rows[i] = code

\* POST /init of a payment provider, up to the INSERT INTO orders: a code is
\* drawn and the PENDING order stored with it as username and password; a
\* rejected INSERT is answered 500.
PurchaseInit ==
    /\ UNCHANGED nonGenVars
    /\ Len(orderCodes) + Len(voucherCodes) < MaxIssued
    /\ \E voucherCode \in CodeChoices :
         IF DuplicateKey(orderCodes, voucherCode)
         THEN /\ issued' = [op |-> "init", code |-> voucherCode, http |-> 500]
              /\ UNCHANGED orderCodes
         ELSE /\ issued' = [op |-> "init", code |-> voucherCode, http |-> 200]
              /\ orderCodes' = Append(orderCodes, voucherCode)
    /\ UNCHANGED voucherCodes

\* One round of the loop of POST /api/vouchers/generate: a code is drawn and
\* the ACTIVE voucher stored; a rejected INSERT ends the request with 500.
GenerateVoucher ==
    /\ UNCHANGED nonGenVars
    /\ Len(orderCodes) + Len(voucherCodes) < MaxIssued
    /\ \E code \in CodeChoices :
         IF DuplicateKey(voucherCodes, code)
         THEN /\ issued' = [op |-> "generate", code |-> code, http |-> 500]
              /\ UNCHANGED voucherCodes
         ELSE /\ issued' = [op |-> "generate", code |-> code, http |-> 200]
              /\ voucherCodes' = Append(voucherCodes, code)
    /\ UNCHANGED orderCodes

NextGen == PurchaseInit \/ GenerateVoucher

SpecGen == Init /\ [][NextGen]_vars

(***************************************************************************)
(* Properties                                                              *)
(***************************************************************************)
Running == {p \in Procs : pc[p] # "idle"}

\* C1 (race safety): two handlers that both loaded the order (its plan
\* exists) while it was PENDING and both passed provider verification never
\* both activate the voucher and never both write PAID.
C1_RaceSafety ==
    \A p, q \in Running :
        (/\ p # q /\ order.plan
         /\ did[p].entry = "PENDING" /\ did[q].entry = "PENDING"
         /\ did[p].verified /\ did[q].verified)
        => /\ ~(did[p].activated /\ did[q].activated)
           /\ ~(did[p].wrote = "PAID" /\ did[q].wrote = "PAID")

\* C2 (idempotent activation): once two verified-success confirmations have
\* been delivered one after the other for an order whose plan exists, with no
\* store or RADIUS failure and no voucher use, activateVoucher has been
\* called exactly once and status PAID has been written exactly once.
C2_IdempotentActivation ==
    (okRuns >= 2 /\ order.plan /\ ~faulted /\ ~usage)
    => (activations = 1 /\ paidWrites = 1)

\* C2 witness: the second of two such deliveries has finished, having found
\* the order PAID.
C2_Witness ==
    /\ okRuns = 2 /\ order.plan /\ ~faulted /\ ~usage
    /\ \E p \in Procs : pc[p] = "done" /\ did[p].entry = "PAID"
                        /\ sig[p].chan \in Webhooks /\ firstPaid.chan = sig[p].chan
    /\ activations = 1 /\ paidWrites = 1

\* C3 (one PAID transition per order): over any sequence of confirmations and
\* voucher uses in which no store or RADIUS call fails, an order whose plan
\* exists is written PAID at most once and its voucher is activated at most
\* once.
C3_PaidOnce == (order.plan /\ ~faulted) => (activations <= 1 /\ paidWrites <= 1)

\* C4 (verification precedes PAID): a handler that has written PAID or
\* activated the voucher (the order's plan exists) has first made a provider
\* verification call that reported success.
C4_VerifiedBeforePaid ==
    \A p \in Running :
        (order.plan /\ (did[p].wrote = "PAID" \/ did[p].activated)) => did[p].verified

\* C5 (mismatch blocks activation): a handler serving a confirmation (a
\* signal that claims success, for an order whose plan exists) whose
\* provider-side status, reference, currency or amount disagrees with the
\* order writes no order status and does not activate the voucher.
C5_MismatchBlocks ==
    \A p \in Running :
        (order.plan /\ sig[p].claim = "success" /\ sig[p].truth \in Mismatches)
        => (did[p].wrote = "none" /\ ~did[p].activated)

\* C6 (PAID is terminal): no step takes the status of an order (its plan
\* exists) from PAID to FAILED or back to PENDING (COMPLETED is the
\* voucher-use operation's step).
C6_PaidTerminal ==
    [][(order.status = "PAID" /\ order.plan)
       => order'.status \in {"PAID", "COMPLETED"}]_vars

\* C7 (FAILED is terminal): no step takes a FAILED order (its plan exists)
\* to another status or activates its voucher.
C7_FailedTerminal ==
    [][(order.status = "FAILED" /\ order.plan)
       => (order'.status = "FAILED" /\ activations' = activations)]_vars

\* C8 (re-entry returns the original payload): an interactive request that
\* found the order PAID answers with the payload of the request of the same
\* channel that carried the order (its plan exists and it recorded the
\* customer's MAC) to PAID, when no store or RADIUS call has failed.
C8_SamePayload ==
    \A p \in Procs :
        (/\ pc[p] = "done" /\ sig[p].chan \in Interactive
         /\ order.plan /\ order.mac
         /\ did[p].entry = "PAID"
         /\ firstPaid.chan = sig[p].chan
         /\ ~faulted)
        => resp[p] = firstPaid.payload

\* C9 (unauthenticated webhook): a webhook request whose shared-secret header
\* is missing or wrong changes no order status (the order's plan exists),
\* writes nothing to RADIUS, sends nothing to the NAS, and is answered 200.
C9_BadSecretIgnored ==
    \A p \in Running :
        (sig[p].chan \in Webhooks /\ ~sig[p].auth /\ order.plan)
        => /\ did[p].wrote = "none" /\ ~did[p].activated /\ ~did[p].nas
           /\ pc[p] = "done" => resp[p].http = 200

\* C10 (webhooks always acknowledge): every finished webhook request was
\* answered 200 "ok", whatever happened inside it.
C10_WebhookAlways200 ==
    \A p \in Procs :
        (pc[p] = "done" /\ sig[p].chan \in Webhooks)
        => (resp[p].http = 200 /\ resp[p].view = "ok")

\* C10 witness: a webhook request in which a store or RADIUS call threw after
\* verification has been answered.
C10_Witness ==
    \E p \in Procs :
        /\ pc[p] = "done" /\ sig[p].chan \in Webhooks
        /\ nSignals = 1 /\ faulted
        /\ did[p].entry = "PENDING"
        /\ resp[p].http = 200

\* C11 (the authorizer never undoes the commit): the step in which a handler
\* runs the Network Access Authorizer and records its outcome, whatever that
\* outcome and whether or not the recording fails, leaves the order's status
\* and the RADIUS activations as they were.
C11_AuthorizerKeepsCommit ==
    [][\A p \in Procs :
          (pc[p] = "autologin" /\ pc'[p] # "autologin")
          => (order'.status = order.status /\ activations' = activations)]_vars

\* C11 witness: a handler that wrote PAID has had the authorizer fail, and
\* the order is PAID with its one activation.
C11_Witness ==
    \E p \in Procs :
        /\ did[p].wrote = "PAID" /\ did[p].nas /\ did[p].auto = "failed"
        /\ order.status = "PAID" /\ activations = 1

\* C12 (degraded but successful): an interactive request that wrote PAID for
\* an order with a MAC and whose authorizer failed (no store call failing)
\* answers with the success outcome carrying the failed auto-login, and the
\* order's autologin_status is 'failed'.
C12_DegradedSuccess ==
    \A p \in Procs :
        (/\ pc[p] = "done" /\ sig[p].chan \in Interactive
         /\ did[p].wrote = "PAID" /\ did[p].nas /\ did[p].auto = "failed"
         /\ ~faulted)
        => /\ resp[p].http = 200
           /\ resp[p].view = "payment-success" \/ resp[p].status = "PAID"
           /\ resp[p].auto = "failed"
           /\ order.autologin_status = "failed"

\* C12 witness: a status poll carried the order to PAID, its authorizer
\* failed, and the poll has answered.
C12_Witness ==
    \E p \in Procs :
        /\ pc[p] = "done" /\ sig[p].chan = "yoStatus" /\ order.mac
        /\ did[p].wrote = "PAID" /\ did[p].auto = "failed" /\ ~faulted
        /\ resp[p].status = "PAID"

\* C13 (the payment log follows the order): when a request that wrote PAID
\* for an order (its plan exists) has finished and no store or RADIUS call
\* has failed, the payment-log entry of the order's reference is 'success';
\* when a request that wrote FAILED has finished, the entry is 'failed'.
C13_LogFollowsOrder ==
    \A p \in Procs :
        (pc[p] = "done" /\ order.plan /\ ~faulted)
        => /\ did[p].wrote = "PAID" => paylog = "success"
           /\ did[p].wrote = "FAILED" => paylog = "failed"

\* C14 (missing plan): no handler serving a signal for an order whose plan
\* does not exist writes PAID or activates the voucher.
C14_NoPlanNoPaid ==
    \A p \in Running :
        ~order.plan => (did[p].wrote # "PAID" /\ ~did[p].activated)

\* C15 (voucher reuse rejected): once markVoucherUsed has succeeded for the
\* code of an order whose plan exists (its usage row exists), a validation of
\* that code that gets past the block-list and rate-limit checks is denied as already used.
C15_ReuseRejected ==
    (usage /\ order.plan) => ValidateOrderCode(order, usage) = "already_used"

\* C16 (marked used at most once): of the POST /voucher/use requests for the
\* voucher's code, at most one is answered with success (no query failing).
C16_MarkedOnce == ~secFault => marks <= 1

C19_RateLimit ==
    [][\A p \in Procs :
          (vpc[p] = "rate" /\ vpc'[p] # "rate")
          => /\ passes' <= MAX_ATTEMPTS_PER_WINDOW
             /\ (/\ rateLimitStore.present
                 /\ now - rateLimitStore.windowStart <= RATE_LIMIT_WINDOW_MS
                 /\ rateLimitStore.count >= MAX_ATTEMPTS_PER_WINDOW)
                => /\ vpc'[p] = "done"
                   /\ vreq'[p].result.rateLimited /\ ~vreq'[p].result.valid
                   /\ ~vreq'[p].lookedUp
                   /\ now + vreq'[p].result.retryAfter * 1000
                          >= rateLimitStore.windowStart + RATE_LIMIT_WINDOW_MS]_vars

\* C19 witness: ten validations passed in the window and the next one was
\* denied as rate limited, with a hint, before any lookup.
C19_Witness ==
    \E p \in Procs :
        /\ vpc[p] = "done" /\ passes = MAX_ATTEMPTS_PER_WINDOW
        /\ rateLimitStore.count > MAX_ATTEMPTS_PER_WINDOW
        /\ vreq[p].result.rateLimited
        /\ vreq[p].result.message = "Rate limit exceeded"
        /\ vreq[p].result.retryAfter > 0 /\ ~vreq[p].lookedUp

\* C20 (input validation of activateVoucher): a call whose username or
\* password is missing, or whose minutes is missing, zero or negative, writes
\* no RADIUS record and ends by throwing at the input test.
C20_RejectsBadInput ==
    (/\ av.pc # "idle"
     /\ \/ ~Truthy(av.args.username)
        \/ ~Truthy(av.args.password)
        \/ av.args.minutes.type = "undefined"
        \/ av.args.minutes.type = "number" /\ av.args.minutes.n <= 0)
    => /\ av.wrote = 0
       /\ av.pc \in {"returned", "threw"} => (av.pc = "threw" /\ av.err = "input")

C22_LegacyRate ==
    [][/\ \A D, U \in {4, 8, 1500, 3000} :
            (/\ av.pc = "write" /\ av'.pc = "returned"
             /\ ~Truthy(av.args.speedDownKbps) /\ ~Truthy(av.args.speedUpKbps)
             /\ av.args.rate.type = "text"
             /\ \E zd, zu \in {<< >>, <<"0">>} :
                  av.args.rate.s = zd \o ToDigits(D) \o <<"k", "/">>
                                   \o zu \o ToDigits(U) \o <<"k">>)
            => /\ Writes(av.args, av.t)
                    = Writes([av.args EXCEPT !.rate = Undef,
                                             !.speedDownKbps = Num(D),
                                             !.speedUpKbps = Num(U)], av.t)
               /\ radius'["Mikrotik-Rate-Limit"]
                    = Text(ToDigits(D) \o <<"k", "/">> \o ToDigits(U) \o <<"k">>)
               /\ radius'["WISPr-Bandwidth-Max-Down"] = Num(D * 1000)
               /\ radius'["WISPr-Bandwidth-Max-Up"] = Num(U * 1000)
               /\ av'.ret.speedDownKbps = Num(D) /\ av'.ret.speedUpKbps = Num(U)
       /\ (/\ av.pc = "write"
           /\ ~Truthy(av.args.speedDownKbps) /\ ~Truthy(av.args.speedUpKbps)
           /\ av.args.rate.type = "text"
           /\ \E i \in 1 .. Len(av.args.rate.s) :
                ~IsDigit(av.args.rate.s[i]) /\ av.args.rate.s[i] \notin {"k", "/"})
          => /\ radius'["Mikrotik-Rate-Limit"] = radius["Mikrotik-Rate-Limit"]
             /\ radius'["WISPr-Bandwidth-Max-Down"] = radius["WISPr-Bandwidth-Max-Down"]
             /\ radius'["WISPr-Bandwidth-Max-Up"] = radius["WISPr-Bandwidth-Max-Up"]
             /\ av'.pc = "returned" => ~Truthy(av'.ret.speedDownKbps)]_vars

\* C22 witness: the call with only rate = "3000k/1500k" has returned 3000 and
\* 1500 and left "3000k/1500k" and 3000000.
C22_Witness ==
    /\ av.pc = "returned" /\ av.args.speedDownKbps = Undef
    /\ av.args.rate = Text(<<"3", "0", "0", "0", "k", "/", "1", "5", "0", "0", "k">>)
    /\ av.ret.speedDownKbps = Num(3000) /\ av.ret.speedUpKbps = Num(1500)
    /\ radius["Mikrotik-Rate-Limit"] = av.args.rate
    /\ radius["WISPr-Bandwidth-Max-Down"] = Num(3000000)

C24_StatusDerivation ==
    calc.fn = "getVoucherStatus"
    => LET in == calc.input
           reject == in.check.authType = Str("Reject")
           past == /\ in.reply.expiration # Absent
                   /\ LET d == parseRadiusExpiration(in.zone, in.reply.expiration.s,
                                                     in.reply.expiration.generic)
                      IN  d # Null /\ d.n < in.now
           pw == in.check.password # Absent
       IN  /\ reject => calc.output = Str("DISABLED")
           /\ (~reject /\ past) => calc.output = Str("EXPIRED")
           /\ (~reject /\ ~past /\ pw) => calc.output = Str("ACTIVE")
           /\ (~reject /\ ~past /\ ~pw) => calc.output = Str("UNKNOWN")

\* C24 witness: a voucher with a password, another Auth-Type and an
\* Expiration one second before the query is reported EXPIRED.
C24_Witness ==
    /\ calc.fn = "getVoucherStatus"
    /\ calc.input.check = [authType |-> Str("Accept"), password |-> Str("pw")]
    /\ calc.input.reply.expiration
         = [s |-> radiusExpiration(calc.input.zone, StatusNow - 1), generic |-> Null]
    /\ calc.output = Str("EXPIRED")

\* C25 (MAC normalization): for an input with exactly twelve hexadecimal
\* characters normalizeMacAddress returns those characters in order, in upper
\* case, as six pairs separated by colons; for every other input it returns
\* null; and applied to its own output it returns that output.
C25_MacNormalization ==
    calc.fn = "normalizeMacAddress"
    => LET cs == calc.input.s
           hex == {i \in 1 .. Len(cs) :
                     cs[i] \in {"0", "1", "2", "3", "4", "5", "6", "7", "8", "9",
                                "a", "b", "c", "d", "e", "f",
                                "A", "B", "C", "D", "E", "F"}}
           nth(k) == CHOOSE i \in hex : Cardinality({j \in hex : j <= i}) = k
           same(x, y) == \/ x = y
                         \/ \E i \in 1 .. 6 : x = UpperHex[i] /\ y = LowerHex[i]
       IN  /\ Cardinality(hex) # 12 => calc.output = Null
           /\ Cardinality(hex) = 12
              => /\ calc.output # Null
                 /\ Len(calc.output.s) = 17
                 /\ \A j \in {3, 6, 9, 12, 15} : calc.output.s[j] = ":"
                 /\ \A k \in 1 .. 12 :
                      LET o == calc.output.s[k + (k - 1) \div 2]
                      IN  same(o, cs[nth(k)])
                          /\ o \notin {"a", "b", "c", "d", "e", "f"}
           /\ calc.input.again => (calc.output # Null /\ calc.output.s = cs)

\* C25 witness: "aa-bb-cc-dd-ee-ff" was normalized to "AA:BB:CC:DD:EE:FF" and
\* normalizing that again gave the same text.
C25_Witness ==
    /\ calc.fn = "normalizeMacAddress" /\ calc.input.again
    /\ calc.input.s = <<"A", "A", ":", "B", "B", ":", "C", "C", ":", "D", "D", ":", "E", "E", ":", "F", "F">>
    /\ calc.output = Text(<<"A", "A", ":", "B", "B", ":", "C", "C", ":", "D", "D", ":", "E", "E", ":", "F", "F">>)

\* C26 (one binding per address): once every authorizeMacBinding call for the
\* hardware address has returned, the router holds at most one binding for the
\* address.
C26_AtMostOneBinding ==
    (\A c \in BindCalls : mb[c].pc \in {"idle", "done"})
    => Cardinality(mikrotik) <= 1

\* C27 (audit row per attempt): an authorizeMacBinding call that reached the
\* remote creation and has returned left its mac_bindings row: 'active' (later
\* 'removed') after a success, 'pending' after a failure.
C27_AuditRow ==
    \A c \in BindCalls :
       (mb[c].op = "authorize" /\ mb[c].pc = "done" /\ mb[c].attempted)
       => IF mb[c].ret.success
          THEN mac_bindings[c] \in {"active", "removed"}
          ELSE mac_bindings[c] = "pending"

C29_ActiveSessionInUse ==
    [][\A p \in Procs :
          (/\ vpc[p] = "acct" /\ vpc'[p] = "done"
           /\ voucher.acct = "active" /\ ~voucher_usage.present
           /\ ~secFault')
          => /\ vreq'[p].result.hasActiveSession
             /\ ~vreq'[p].result.alreadyUsed]_vars

\* C30 (order of denials): a found voucher that is not disabled, is recorded
\* as used (ledger row or accounting sessions) and is past its expiry is
\* denied as already used, not as expired.
C30_UsedBeforeExpired ==
    [][\A p \in Procs :
          (/\ vpc[p] = "lookup" /\ vpc'[p] = "done" /\ vreq'[p].http # 500
           /\ vreq[p].code = "good" /\ voucher.status # "DISABLED"
           /\ (voucher_usage.present \/ voucher.acct # "none")
           /\ Expired(voucher, now))
          => /\ vreq'[p].result.alreadyUsed
             /\ vreq'[p].result.message = "This voucher has already been used"]_vars

\* C31 (no IP penalty for a known code): the steps that deny a validation
\* because the voucher is disabled, already used, expired or in use leave the
\* failed-attempt counter, the lockout map and the block list of the source IP
\* unchanged; the answer to a code that is not found adds one to the
\* failed-attempt counter of the current lockout window.
C31_NoPenaltyForKnownCode ==
    [][\A p \in Procs :
          /\ (/\ vpc[p] \in {"lookup", "used", "acct", "session"}
              /\ vpc'[p] = "done" /\ vreq'[p].http # 500
              /\ vreq[p].code = "good" /\ ~vreq'[p].result.valid)
             => /\ failedAttemptsStore' = failedAttemptsStore
                /\ lockedOutIps' = lockedOutIps
                /\ flagged_ips' = flagged_ips
                /\ \/ vreq'[p].result.alreadyUsed
                   \/ vreq'[p].result.hasActiveSession
                   \/ vreq'[p].result.message \in
                        {"This voucher has been disabled", "This voucher has expired"}
          /\ (/\ vpc[p] = "lookup" /\ vpc'[p] # "lookup" /\ vreq'[p].http # 500
              /\ vreq[p].code = "bogus")
             => failedAttemptsStore'.count =
                   1 + (IF /\ failedAttemptsStore.present
                           /\ now - failedAttemptsStore.windowStart <= LOCKOUT_WINDOW_MS
                        THEN failedAttemptsStore.count ELSE 0)]_vars

\* C31 witness: after two codes that were not found, a validation of the
\* expired voucher was denied as expired and the failed-attempt counter still
\* stands at two, with no lockout and no block.
C31_Witness ==
    \E p \in Procs :
        /\ vpc[p] = "done" /\ vreq[p].code = "good"
        /\ vreq[p].result.message = "This voucher has expired"
        /\ failedAttemptsStore.present /\ failedAttemptsStore.count = 2
        /\ ~lockedOutIps.present /\ ~flagged_ips.present

\* C35 (no password without a time limit): whenever no activateVoucher call
\* is in progress (the last one, for a positive duration, has returned or
\* thrown), a username with a Cleartext-Password record also has an
\* Expiration and a Session-Timeout record.
C35_PasswordHasTimeLimit ==
    (/\ av.pc \in {"returned", "threw"}
     /\ av.args.minutes.type = "number" /\ av.args.minutes.n > 0
     /\ radius["Cleartext-Password"] # Absent)
    => /\ radius["Expiration"] # Absent
       /\ radius["Session-Timeout"] # Absent

\* C36 (reply attributes of the last activation only): when activateVoucher
\* has returned from a call for a positive duration without a pair of speeds,
\* no rate-limit or bandwidth record remains, and from a call without a
\* positive data cap no total-limit record remains.
C36_NoStaleAttributes ==
    (av.pc = "returned" /\ av.args.minutes.n > 0)
    => /\ ~(Truthy(downKbps(av.args)) /\ Truthy(upKbps(av.args)))
          => /\ radius["Mikrotik-Rate-Limit"] = Absent
             /\ radius["WISPr-Bandwidth-Max-Down"] = Absent
             /\ radius["WISPr-Bandwidth-Max-Up"] = Absent
       /\ ~(Truthy(av.args.dataMb) /\ av.args.dataMb.n > 0)
          => radius["Mikrotik-Total-Limit"] = Absent

\* C32 (deactivation is reversible): deactivateVoucher deletes no record, and
\* after deactivateVoucher followed by reactivateVoucher without password and
\* duration a voucher that getVoucherStatus reported ACTIVE before the
\* deactivation is reported ACTIVE again, with its original Expiration.
C32_DeactivationReversible ==
    /\ calc.fn = "deactivateVoucher"
       => \A a \in Attributes : calc.input.records[a] # Absent => radius[a] # Absent
    /\ (/\ calc.fn = "reactivateVoucher" /\ calc.output = Str("reactivated")
        /\ calc.input.status = Str("ACTIVE")
        /\ calc.input.records["Expiration"] # Absent)
       => /\ storedStatus(radius, now) = "ACTIVE"
          /\ radius["Expiration"] = calc.input.records["Expiration"]

\* C33 (audit rows superseded on rebind): once every call made, all of them
\* authorizeMacBinding, has returned success and left its audit row, and the
\* router holds at most one binding for the hardware address, at most one
\* mac_bindings row of the address has status 'active', and an active row is
\* that of a binding present on the router.
C33_OneActiveRow ==
    (/\ \A c \in BindCalls :
           \/ mb[c].pc = "idle"
           \/ /\ mb[c].pc = "done" /\ mb[c].op = "authorize" /\ mb[c].ret.success
              /\ mac_bindings[c] # "none"
     /\ Cardinality(mikrotik) <= 1)
    => /\ Cardinality({c \in BindCalls : mac_bindings[c] = "active"}) <= 1
       /\ \A c \in BindCalls : mac_bindings[c] = "active" => c \in mikrotik

\* C34 (voucher codes are unique): no two rows of the orders and vouchers
\* tables hold the same voucher code, and a request whose fresh code equals
\* one already held stores nothing.
C34_UniqueCodes ==
    LET held == orderCodes \o voucherCodes
    IN  \A i, j \in 1 .. Len(held) : held[i] = held[j] => i = j

\* C37 (activation failure leaves the order unpaid): a confirmation whose
\* activateVoucher call throws ends there, in the handler's catch block: the
\* orders row is as it was (a PENDING order stays PENDING), no PAID write is
\* executed, no activation is counted and the request never reaches the
\* authorizer.
C37_ActivationFailureKeepsPending ==
    [][\A p \in Procs :
          (pc[p] = "activate" /\ pc'[p] # "activate" /\ ~did'[p].activated)
          => /\ pc'[p] = "done"
             /\ order' = order
             /\ order.status = "PENDING" => order'.status = "PENDING"
             /\ paidWrites' = paidWrites /\ activations' = activations
             /\ did'[p].wrote = "none" /\ ~did'[p].nas]_vars

\* C37 witness: one request of a PENDING order ended at a failed activation
\* having written nothing, and a later request of the same order verified,
\* activated and wrote PAID.
C37_Witness ==
    \E p, q \in Procs :
        /\ p # q /\ pc[p] = "done" /\ pc[q] = "done"
        /\ did[p].verified /\ ~did[p].activated /\ did[p].wrote = "none" /\ ~did[p].nas
        /\ order.plan
        /\ did[q].verified /\ did[q].activated /\ did[q].wrote = "PAID"
        /\ order.status = "PAID" /\ activations = 1 /\ paidWrites = 1

\* C38 (one transaction pays one order): a Flutterwave confirmation whose
\* transaction id the provider verifies writes PAID only when the reference
\* the provider reports for that transaction is the reference of the order
\* the request names; a request that presents a transaction of another
\* reference writes nothing, activates nothing and never reaches the
\* authorizer.
C38_TransactionPaysOwnOrder ==
    \A p \in Procs :
        (pc[p] # "idle" /\ sig[p].chan \in {"fwWebhook", "fwRedirect"})
        => /\ did[p].wrote = "PAID" => sig[p].truth = "ok"
           /\ sig[p].truth = "badRef"
              => (did[p].wrote = "none" /\ ~did[p].activated /\ ~did[p].nas)

\* C38 witness: a redirect that named a PENDING order and presented a
\* successful transaction of another reference was answered with the
\* verification failure, and the order is still PENDING and not activated.
C38_Witness ==
    \E p \in Procs :
        /\ pc[p] = "done" /\ sig[p].chan = "fwRedirect" /\ sig[p].truth = "badRef"
        /\ did[p].entry = "PENDING"
        /\ resp[p] = Page("payment-failed", "Payment verification failed", FALSE, "-")
        /\ order.status = "PENDING" /\ activations = 0 /\ paidWrites = 0

\* C39 (an unpaid order's code is inert): while no confirmation request is in
\* flight, the voucher code of an order that is PENDING or FAILED and that no
\* PAID write was ever executed for is not reported valid by
\* validateVoucherSecure and has no RADIUS records (no activateVoucher call
\* for its username has completed).
C39_UnpaidCodeInert ==
    (/\ order.status \in {"PENDING", "FAILED"}
     /\ paidWrites = 0
     /\ \A p \in Procs : pc[p] \in {"idle", "done"})
    => /\ ValidateOrderCode(order, usage) # "valid"
       /\ activations = 0

\* C40 (retryAfter of a denial is at least one second): a request that
\* checkRateLimit denied, whether the window's limit was exceeded or the IP
\* was locked out, carries a retryAfter of 1 or more.
C40_RetryAfterPositive ==
    \A p \in Procs :
        (vpc[p] = "done" /\ vreq[p].result.rateLimited)
        => vreq[p].result.retryAfter >= 1

====
